---- MODULE Spec2Model ----
(***************************************************************************)
(* A model of the dashboard export automation:                             *)
(*   scripts/main.py     multi-pass orchestrator, Playwright worker and    *)
(*                       the facility selector (select_first_search_result)*)
(*   src/functions_v2.py Selenium worker (driver.quit in a finally)        *)
(*   src/functions.py    Selenium worker with the TO_DEBUG toggle          *)
(*                                                                         *)
(* Text is a sequence of characters.  A one-character string stands for    *)
(* itself; "nbsp" is U+00A0 (NO-BREAK SPACE), "fwa" is U+FF41 (FULLWIDTH    *)
(* LATIN SMALL LETTER A), "dia" is U+00A8 (DIAERESIS) and "cmb" is U+0308  *)
(* (COMBINING DIAERESIS): NFKC rewrites the first three.                    *)
(***************************************************************************)
EXTENDS Integers, Sequences, FiniteSets, Bags, TLC

VARIABLES
    pc,             \* orchestrator position in the __main__ block of scripts/main.py
    attempt,        \* scripts/main.py: attempt
    run_timestamp,  \* scripts/main.py: run_timestamp (NoValue before the first pass)
    output_dir,     \* scripts/main.py: output_dir (NoValue before the first pass)
    baseCsv,        \* rows (faci_name) of data/inputs/hospitals_new.csv
    failedCsv,      \* rows (faci_name) of data/inputs/failed_hospitals.csv
    hospitals,      \* scripts/main.py: hospitals, the list of the current pass
    failed,         \* scripts/main.py: failed, the merged list of the current pass
    workers,        \* the futures of the pass: one record per submitted worker_task
    wk,             \* the inside of one worker_task call (WorkerSpec)
    pdfs,           \* the output directory: pdf file name -> what the page showed
    variant,        \* which program's worker_task runs: "main", "v2" or "functions"
    TO_DEBUG,       \* src/functions.py: TO_DEBUG
    part,           \* input and result of the partition expression (PartSpec)
    num_workers,    \* scripts/main.py: NUM_WORKERS, as the run is configured
    call,           \* arguments and result of one call of a function on its own
    missing_csv,    \* scripts/validate.py: the file MISSING_CSV in the output directory
    validated       \* scripts/validate.py: missing_pdfs of each run so far

\* The variables the programs' steps above leave alone.
aside == <<call, missing_csv, validated>>

vars == <<pc, attempt, run_timestamp, output_dir, baseCsv, failedCsv, hospitals,
          failed, workers, wk, pdfs, variant, TO_DEBUG, part, num_workers, aside>>

-----------------------------------------------------------------------------
(* Bounds of the model *)

\* Longest input list (rows of hospitals_new.csv) of the orchestrator.
MaxNames == 3
\* The attempt counter is unbounded in the code; the model stops counting here
\* (the counter stays at MaxAttempt while the passes go on).
MaxAttempt == 4
\* Most result items the dropdown renders in a worker-level attempt.
MaxItems == 1
\* Longest hospitals_subset of a worker_task call looked at on its own.
MaxSubset == 3
\* Longest list and largest worker count the partition expression is applied to.
MaxPartLen == 5
MaxPartWorkers == 5
\* Longest facility name whose file name is computed on its own.
MaxFileNameLen == 2
\* Longest text normalized on its own, and longest target it is compared with.
MaxTextLen == 3
MaxTargetLen == 2
\* Most rows of the list scripts/validate.py reads, and most runs of it.
MaxValidateRows == 2
MaxValidateRuns == 2
\* Most rows of the list an export run and its reconciliation read.
MaxReconcileRows == 2
\* Most rows of the list attempt_run reads, and the most workers it is given.
MaxAttemptRunRows == 2
MaxAttemptRunWorkers == 2

-----------------------------------------------------------------------------
(* Program constants *)

NUM_WORKERS == 4

\* None, as a value comparable with the paths and timestamps of the model
NoValue == <<>>

\* No call made; no such file.
NoCall == [fn |-> "none"]

NoFile == [exists |-> FALSE, rows |-> <<>>]

AsideInit ==
    /\ call = NoCall
    /\ missing_csv = NoFile
    /\ validated = <<>>

-----------------------------------------------------------------------------
(* Text *)

\* unicodedata.normalize("NFKC", .) on the characters of the model: the
\* no-break space becomes a space, the fullwidth a becomes a.
NFKCChar(c) ==
    CASE c = "nbsp" -> " "
      [] c = "fwa"  -> "a"
      [] OTHER      -> c

\* The diaeresis becomes a space followed by the combining diaeresis.
NFKCExpand(c) == IF c = "dia" THEN <<" ", "cmb">> ELSE <<NFKCChar(c)>>

RECURSIVE NFKC(_)
NFKC(s) == IF s = <<>> THEN <<>> ELSE NFKCExpand(Head(s)) \o NFKC(Tail(s))

\* str.isspace() on one character.
IsSpace(c) == c \in {" ", "nbsp", "\t"}

RECURSIVE LStrip(_)
LStrip(s) == IF s # <<>> /\ IsSpace(Head(s)) THEN LStrip(Tail(s)) ELSE s

RECURSIVE RStrip(_)
RStrip(s) ==
    IF s # <<>> /\ IsSpace(s[Len(s)]) THEN RStrip(SubSeq(s, 1, Len(s) - 1)) ELSE s

\* str.strip()
Strip(s) == RStrip(LStrip(s))

\* str.split(): the maximal runs of non-space characters, in order.
RECURSIVE SplitFrom(_, _, _)
SplitFrom(s, cur, acc) ==
    IF s = <<>>
    THEN IF cur = <<>> THEN acc ELSE Append(acc, cur)
    ELSE IF IsSpace(Head(s))
         THEN SplitFrom(Tail(s), <<>>, IF cur = <<>> THEN acc ELSE Append(acc, cur))
         ELSE SplitFrom(Tail(s), Append(cur, Head(s)), acc)

Split(s) == SplitFrom(s, <<>>, <<>>)

\* " ".join(words)
RECURSIVE JoinSp(_)
JoinSp(ws) ==
    IF ws = <<>> THEN <<>>
    ELSE IF Len(ws) = 1 THEN ws[1]
    ELSE ws[1] \o <<" ">> \o JoinSp(Tail(ws))

\* A normalisation that collapses the whitespace first and rewrites the
\* characters last.
normalize_text_NFKCLast(s) == NFKC(JoinSp(Split(Strip(s))))

\* scripts/main.py normalize_text
normalize_text(s) == JoinSp(Split(Strip(NFKC(s))))

\* The characters re.sub(r"[\\/*?:\"<>|]", "_", .) replaces.
IllegalChars == {"\\", "/", "*", "?", ":", "\"", "<", ">", "|"}

\* safe_name = re.sub(r"[\\/*?:\"<>|]", "_", hospital)
safe_name(h) == [i \in 1..Len(h) |-> IF h[i] \in IllegalChars THEN "_" ELSE h[i]]

\* date_for_filename = run_timestamp.split("_")[0]
date_for_filename(ts) == ts[1]

\* pdf_name = f"SB_Report_{date_for_filename}_{safe_name}.pdf"
pdf_name(ts, h) ==
    <<"SB_Report_", date_for_filename(ts), "_">> \o safe_name(h) \o <<".pdf">>

-----------------------------------------------------------------------------
(* scripts/main.py select_first_search_result                              *)
(*                                                                         *)
(* ui is what the dashboard answers during one call:                       *)
(*   open     <<b1, b2>>: click + wait for the search input succeeds on    *)
(*            attempt 0 / attempt 1                                        *)
(*   search   the search box is found, filled and Enter is pressed         *)
(*   wait     wait_for_selector on the result items succeeds               *)
(*   items    the rendered items, in display order: text (inner_text),     *)
(*            read (inner_text does not raise), click <<b1, b2>> (click    *)
(*            does not raise in the normalized / in the raw pass)          *)
(*   close    the click on body succeeds                                   *)
(*   selected [ok, v]: inner_text of the closed dropdown                   *)

Ev(e, i) == [e |-> e, i |-> i]

\* An opening step that clicks once and never again.
OpenClicks_NoRetry(ui) == 1

\* for attempt in range(2): the number of dropdown clicks made
OpenClicks(ui) == IF ui.open[1] THEN 1 ELSE 2

\* An opening loop that is left as if the dropdown had opened, whatever
\* happened.
Opened_Always(ui) == TRUE

\* An opening loop that gives up whatever happened.
Opened_Never(ui) == FALSE

\* The loop of lines 85-94 is left by break (and not by the raise of line 93).
Opened(ui) == ui.open[1] \/ ui.open[2]

\* A scan that takes the first item it can read.
ItemMatches_Any(pass, text, hospital) == TRUE

\* if normalize_text(text) == normalize_text(hospital)      (pass 1)
\* if text == hospital                                      (pass 2)
ItemMatches(pass, text, hospital) ==
    IF pass = 1
    THEN normalize_text(Strip(text)) = normalize_text(hospital)
    ELSE Strip(text) = hospital

\* One scan loop, from item i on: the index of the item clicked, 0 for none.
\* An item whose inner_text or click raises is skipped (except: continue).
RECURSIVE ScanFrom(_, _, _, _)
ScanFrom(items, i, pass, hospital) ==
    IF i > Len(items) THEN 0
    ELSE IF /\ items[i].read
            /\ ItemMatches(pass, items[i].text, hospital)
            /\ items[i].click[pass]
         THEN i
         ELSE ScanFrom(items, i + 1, pass, hospital)

\* A scan that goes through the items from the last one to the first.
RECURSIVE ScanBack(_, _, _, _)
ScanBack(items, i, pass, hospital) ==
    IF i = 0 THEN 0
    ELSE IF /\ items[i].read
            /\ ItemMatches(pass, items[i].text, hospital)
            /\ items[i].click[pass]
         THEN i
         ELSE ScanBack(items, i - 1, pass, hospital)

Scan_Last(items, pass, hospital) == ScanBack(items, Len(items), pass, hospital)

Scan(items, pass, hospital) == ScanFrom(items, 1, pass, hospital)

\* A final check that only reads the closed dropdown, without comparing.
VerifyOutcome_ReadOnly(ui, hospital) ==
    IF ~ui.selected.ok THEN "post_selection" ELSE "Verified"

\* The outcome of the final check on the closed dropdown's text.
VerifyOutcome(ui, hospital) ==
    IF ~ui.selected.ok THEN "post_selection"
    ELSE IF normalize_text(Strip(ui.selected.v)) # normalize_text(hospital)
         THEN "post_selection"
         ELSE "Verified"

\* A scan loop that clicks a second time on an item whose click raised.
RECURSIVE ScanEventsRetryFrom(_, _, _, _)
ScanEventsRetryFrom(items, i, pass, hospital) ==
    IF i > Len(items) THEN <<>>
    ELSE IF items[i].read /\ ItemMatches(pass, items[i].text, hospital)
         THEN IF items[i].click[pass]
              THEN <<Ev("click_item", i)>>
              ELSE <<Ev("click_raises", i), Ev("click_raises", i)>>
                   \o ScanEventsRetryFrom(items, i + 1, pass, hospital)
         ELSE ScanEventsRetryFrom(items, i + 1, pass, hospital)

ScanEvents_ClickTwice(items, pass, hospital) ==
    <<Ev("scan", pass)>> \o ScanEventsRetryFrom(items, 1, pass, hospital)

\* What one scan loop does, from item i on: each click it makes on an item
\* it read and found matching, up to the first click that does not raise.
RECURSIVE ScanEventsFrom(_, _, _, _)
ScanEventsFrom(items, i, pass, hospital) ==
    IF i > Len(items) THEN <<>>
    ELSE IF items[i].read /\ ItemMatches(pass, items[i].text, hospital)
         THEN IF items[i].click[pass]
              THEN <<Ev("click_item", i)>>
              ELSE <<Ev("click_raises", i)>>
                   \o ScanEventsFrom(items, i + 1, pass, hospital)
         ELSE ScanEventsFrom(items, i + 1, pass, hospital)

ScanEvents(items, pass, hospital) ==
    <<Ev("scan", pass)>> \o ScanEventsFrom(items, 1, pass, hospital)

\* A wait that is content with a selector that became visible, whatever the
\* count of items.
ResultsRendered_IgnoreCount(ui) == ui.wait

\* Lines 110-113: the wait for an item did not time out and count is not 0.
ResultsRendered(ui) == ui.wait /\ Len(ui.items) > 0

select_first_search_result(hospital, ui) ==
    LET opens  == OpenClicks(ui)
        evOpen == [k \in 1..opens |-> Ev("click_dropdown", k)]
        hit1   == Scan(ui.items, 1, hospital)
        hit2   == IF hit1 = 0 THEN Scan(ui.items, 2, hospital) ELSE 0
        hit    == IF hit1 # 0 THEN hit1 ELSE hit2
        pass   == IF hit1 # 0 THEN 1 ELSE IF hit2 # 0 THEN 2 ELSE 0
        base   == [outcome |-> "dropdown_open", opens |-> opens, clicked |-> 0,
                   pass |-> 0, reread |-> [ok |-> FALSE, v |-> <<>>],
                   events |-> evOpen]
    IN  IF ~Opened(ui) THEN base
        ELSE IF ~ui.search
        THEN [base EXCEPT !.outcome = "search_input",
                          !.events = evOpen \o <<Ev("search", 0)>>]
        ELSE IF ~ResultsRendered(ui)
        THEN [base EXCEPT !.outcome = "dropdown_wait",
                          !.events = evOpen \o <<Ev("search", 0), Ev("wait_items", 0)>>]
        ELSE IF hit = 0
        THEN [base EXCEPT !.outcome = "no_exact_match",
                          !.events = evOpen \o <<Ev("search", 0), Ev("wait_items", 0)>>
                                            \o ScanEvents(ui.items, 1, hospital)
                                            \o ScanEvents(ui.items, 2, hospital)]
        ELSE [outcome |-> VerifyOutcome(ui, hospital),
              opens   |-> opens,
              clicked |-> hit,
              pass    |-> pass,
              reread  |-> IF ui.selected.ok
                          THEN [ok |-> TRUE, v |-> Strip(ui.selected.v)]
                          ELSE [ok |-> FALSE, v |-> <<>>],
              events  |-> evOpen
                          \o <<Ev("search", 0), Ev("wait_items", 0)>>
                          \o ScanEvents(ui.items, 1, hospital)
                          \o (IF pass = 2 THEN ScanEvents(ui.items, 2, hospital)
                                          ELSE <<>>)
                          \o <<Ev("click_body", 0), Ev("verify", 0)>>]

-----------------------------------------------------------------------------
(* What the dashboard may answer to a worker's attempt for one name.  The  *)
(* answers the call never asks for are left at a default, so every path of *)
(* the selector is answered once.                                          *)

\* Labels the dropdown shows.
Labels == {<<"a">>, <<"b">>, <<"c">>, <<"fwa">>}

NoRead == [ok |-> FALSE, v |-> <<>>]

ReadResults == {NoRead} \cup {[ok |-> TRUE, v |-> l] : l \in Labels}

ItemAnswers ==
    {[text |-> <<>>, read |-> FALSE, click |-> <<FALSE, FALSE>>]}
    \cup {[text |-> l, read |-> TRUE, click |-> <<c1, c2>>] :
             l \in Labels, c1 \in BOOLEAN, c2 \in BOOLEAN}

RECURSIVE SeqsOf(_, _)
SeqsOf(S, n) ==
    IF n = 0 THEN {<<>>}
    ELSE LET shorter == SeqsOf(S, n - 1)
         IN  shorter \cup {Append(q, x) : q \in {r \in shorter : Len(r) = n - 1}, x \in S}

DefaultUI ==
    [open |-> <<TRUE, FALSE>>, search |-> TRUE, wait |-> TRUE, items |-> <<>>,
     close |-> TRUE, selected |-> NoRead]

OpenAnswers == {<<TRUE, FALSE>>, <<FALSE, TRUE>>}

UIAnswers(hospital) ==
    {[DefaultUI EXCEPT !.open = <<FALSE, FALSE>>]}
    \cup {[DefaultUI EXCEPT !.open = o, !.search = FALSE] : o \in OpenAnswers}
    \cup {[DefaultUI EXCEPT !.open = o, !.wait = w] : o \in OpenAnswers, w \in BOOLEAN}
    \cup UNION {
           IF Scan(its, 1, hospital) = 0 /\ Scan(its, 2, hospital) = 0
           THEN {[DefaultUI EXCEPT !.open = o, !.items = its] : o \in OpenAnswers}
           ELSE {[DefaultUI EXCEPT !.open = o, !.items = its, !.close = c,
                                   !.selected = r] :
                    o \in OpenAnswers, c \in BOOLEAN, r \in ReadResults}
           : its \in SeqsOf(ItemAnswers, MaxItems) \ {<<>>}}

-----------------------------------------------------------------------------
(* Lists *)

Min(a, b) == IF a < b THEN a ELSE b

\* math.ceil(n / w) for n >= 0, w > 0
CeilDiv(n, w) == (n + w - 1) \div w

\* A chunk size rounded down instead of up.
split_size_Floor(list, w) == Len(list) \div w

\* split_size = math.ceil(len(hospitals) / NUM_WORKERS)
split_size(list, w) == CeilDiv(Len(list), w)

\* range(0, n, size) has ceil(n / size) values i = (k - 1) * size, k = 1, 2, ...
\* (size > 0: range() raises on a zero step)
RangeCount(n, size) == CeilDiv(n, size)

\* The slice hospitals[i:i + size] of the k-th value of i, as the positions
\* (counted from 1) of its first and its last element.
SliceLo(k, size) == (k - 1) * size + 1

\* A slice that also takes the element at i + size.
SliceHi_Inclusive(k, size, n) == Min(k * size + 1, n)

SliceHi(k, size, n) == Min(k * size, n)

\* [hospitals[i:i + split_size] for i in range(0, len(hospitals), split_size)]
Chunks(list, size) ==
    [k \in 1..RangeCount(Len(list), size) |->
        SubSeq(list, SliceLo(k, size), SliceHi(k, size, Len(list)))]

\* The positions each subset takes from the list.
ChunkRanges(list, size) ==
    [k \in 1..RangeCount(Len(list), size) |->
        <<SliceLo(k, size), SliceHi(k, size, Len(list))>>]

\* subsets, for a non-empty list
Subsets(list, w) == Chunks(list, split_size(list, w))

\* The list as a multiset.
BagOf(list) ==
    [x \in {list[i] : i \in 1..Len(list)} |->
        Cardinality({i \in 1..Len(list) : list[i] = x})]

Range(list) == {list[i] : i \in 1..Len(list)}

\* [normalize_text(row["faci_name"]) for row in reader if row.get("faci_name")]
RECURSIVE ReadHospitals(_)
ReadHospitals(rows) ==
    IF rows = <<>> THEN <<>>
    ELSE IF Head(rows) # <<>>
         THEN <<normalize_text(Head(rows))>> \o ReadHospitals(Tail(rows))
         ELSE ReadHospitals(Tail(rows))

-----------------------------------------------------------------------------
(* scripts/main.py worker_task: the state inside one call.                 *)
(*   status  "pending"  worker_task not yet entered                        *)
(*           "running"  inside the with block, session set up              *)
(*           "returned" worker_task returned result                        *)
(*           "raised"   worker_task raised                                 *)
(*   idx     position of the for loop in hospitals_subset                  *)
(*   setup   the set-up call that raised, "ok" once the loop is reached    *)
(*   browser / driver: the browser process and the automation driver       *)
(*   log     how each finished iteration ended: "exported" or "failed"     *)
(*   launches / loads: the calls made so far that launch a browser         *)
(*           (p.chromium.launch, webdriver.Chrome) and that navigate to    *)
(*           the dashboard (page.goto, driver.get)                         *)

NewWorker(subset) ==
    [subset |-> subset, status |-> "pending", idx |-> 1, failed |-> <<>>,
     result |-> <<>>, setup |-> "none", browser |-> "none", driver |-> "none",
     log |-> <<>>, launches |-> 0, loads |-> 0]

\* The calls of lines 183-187, in order; each may raise.
SetupStages == {"sync_playwright", "launch", "new_context", "new_page", "goto"}

\* The browser process exists once p.chromium.launch has returned.
BrowserLaunchedBefore(stage) == stage \in {"new_context", "new_page", "goto"}

\* A way out of the worker that leaves the session as it is.
WithExit_Leak(k) == k

\* The with block is left (normally or by an exception): the driver is
\* stopped, and a browser it launched goes with it.
WithExit(k) ==
    [k EXCEPT !.driver = IF @ = "running" THEN "stopped" ELSE @,
              !.browser = IF @ = "open" THEN "closed" ELSE @]

\* except Exception: return hospitals_subset
ReturnSubset(k) == [k EXCEPT !.status = "returned", !.result = k.subset]

\* return failed
ReturnFailed(k) == [k EXCEPT !.status = "returned", !.result = k.failed]

\* Lines 182-196: enter the with block and set the session up; stage is the
\* call that raises, "ok" when none does.
SetupResult(k, stage) ==
    LET started == [k EXCEPT !.setup = stage,
                             !.driver = IF stage = "sync_playwright"
                                        THEN "none" ELSE "running",
                             !.browser = IF stage = "ok" \/ BrowserLaunchedBefore(stage)
                                         THEN "open" ELSE "none",
                             !.launches = IF stage = "sync_playwright"
                                          THEN @ ELSE @ + 1,
                             !.loads = IF stage \in {"goto", "ok"}
                                       THEN @ + 1 ELSE @]
    IN  IF stage = "ok"
        THEN [started EXCEPT !.status = "running"]
        ELSE ReturnSubset(WithExit(started))

\* Line 201 returned normally and page.pdf (line 212) did not raise.
Exported(r, pdfOk) == r.outcome = "Verified" /\ pdfOk

\* What one iteration of the loop body can do for hospital, over the answers
\* of the dashboard: whether the pdf was written and what the page showed.
EffectsOf(hospital) ==
    {LET r == select_first_search_result(hospital, ui)
     IN  IF Exported(r, pdfOk)
         THEN [exported |-> TRUE, shown |-> r.reread.v]
         ELSE [exported |-> FALSE, shown |-> <<>>]
     : ui \in UIAnswers(hospital), pdfOk \in BOOLEAN}

\* The facility names of the model (normalized, as line 254 leaves them).
Names == {<<"a">>, <<"b">>, <<"c">>}

EffectsTable == [h \in Names |-> EffectsOf(h)]

NameEffects(hospital) == EffectsTable[hospital]

\* page.pdf(path=pdf_path, ...): the file holds what the page shows, the
\* report of the facility the closed dropdown names.
WritePdf(dir, ts, hospital, shown) ==
    LET name == pdf_name(ts, hospital)
    IN  [f \in DOMAIN dir \cup {name} |->
            IF f = name THEN [for |-> hospital, shown |-> shown] ELSE dir[f]]

\* An except branch that does not record the name.
RecordFailure_Drop(k, hospital) == k

\* failed.append(hospital) in the except branch of the loop body
RecordFailure(k, hospital) == [k EXCEPT !.failed = Append(@, hospital)]

\* A loop body that loads the dashboard again after a failed attempt.
LoopBody_ReloadOnFailure(st, ts, eff) ==
    LET hospital == st.k.subset[st.k.idx]
        next(how) == [st.k EXCEPT !.idx = @ + 1, !.log = Append(@, how)]
    IN  IF eff.exported
        THEN [k |-> next("exported"),
              dir |-> WritePdf(st.dir, ts, hospital, eff.shown)]
        ELSE [k |-> [RecordFailure(next("failed"), hospital) EXCEPT !.loads = @ + 1],
              dir |-> st.dir]

\* A loop body that stays on a name whose attempt failed.
LoopBody_RetryOnFailure(st, ts, eff) ==
    LET hospital == st.k.subset[st.k.idx]
    IN  IF eff.exported
        THEN [k |-> [st.k EXCEPT !.idx = @ + 1, !.log = Append(@, "exported")],
              dir |-> WritePdf(st.dir, ts, hospital, eff.shown)]
        ELSE [k |-> RecordFailure([st.k EXCEPT !.log = Append(@, "failed")], hospital),
              dir |-> st.dir]

\* Lines 199-218: one iteration of the for loop, on st = [k, dir].
LoopBody(st, ts, eff) ==
    LET hospital == st.k.subset[st.k.idx]
        next(how) == [st.k EXCEPT !.idx = @ + 1, !.log = Append(@, how)]
    IN  IF eff.exported
        THEN [k |-> next("exported"),
              dir |-> WritePdf(st.dir, ts, hospital, eff.shown)]
        ELSE [k |-> RecordFailure(next("failed"), hospital), dir |-> st.dir]

LoopDone(k) == k.idx > Len(k.subset)

\* Lines 220-225: browser.close() (which may raise), leave the with block,
\* return.
FinishResult(k, closeOk) ==
    IF closeOk
    THEN ReturnFailed(WithExit([k EXCEPT !.browser = "closed"]))
    ELSE ReturnSubset(WithExit(k))

-----------------------------------------------------------------------------
(* One worker_task call of scripts/main.py, step by step (WorkerSpec).     *)

Setup ==
    /\ variant = "main"
    /\ wk.status = "pending"
    /\ \E stage \in SetupStages \cup {"ok"} : wk' = SetupResult(wk, stage)
    /\ UNCHANGED <<pc, attempt, run_timestamp, output_dir, baseCsv, failedCsv,
                   hospitals, failed, workers, pdfs, variant, TO_DEBUG, part, num_workers, aside>>

AttemptName ==
    /\ variant = "main"
    /\ wk.status = "running"
    /\ ~LoopDone(wk)
    /\ \E eff \in NameEffects(wk.subset[wk.idx]) :
          LET st == LoopBody([k |-> wk, dir |-> pdfs], run_timestamp, eff)
          IN  /\ wk' = st.k
              /\ pdfs' = st.dir
    /\ UNCHANGED <<pc, attempt, run_timestamp, output_dir, baseCsv, failedCsv,
                   hospitals, failed, workers, variant, TO_DEBUG, part, num_workers, aside>>

Finish ==
    /\ variant = "main"
    /\ wk.status = "running"
    /\ LoopDone(wk)
    /\ \E closeOk \in BOOLEAN : wk' = FinishResult(wk, closeOk)
    /\ UNCHANGED <<pc, attempt, run_timestamp, output_dir, baseCsv, failedCsv,
                   hospitals, failed, workers, pdfs, variant, TO_DEBUG, part, num_workers, aside>>

-----------------------------------------------------------------------------
(* A whole worker_task call of scripts/main.py, as the pool sees it: the   *)
(* same steps run to the end.                                              *)

\* Every state the loop can be in, from st on.
RECURSIVE LoopStates(_, _)
LoopStates(st, ts) ==
    IF LoopDone(st.k) THEN {st}
    ELSE {st} \cup UNION {LoopStates(LoopBody(st, ts, eff), ts) :
                             eff \in NameEffects(st.k.subset[st.k.idx])}

\* How a call on subset can end: [status, result, dir].  "crashed": the
\* process died, at any point, and left what it had written.
WorkerRuns(subset, dir, ts) ==
    LET k0 == NewWorker(subset)
        loop == LoopStates([k |-> SetupResult(k0, "ok"), dir |-> dir], ts)
    IN  {[status |-> "returned", result |-> SetupResult(k0, stage).result,
          dir |-> dir] : stage \in SetupStages}
        \cup {[status |-> "returned", result |-> FinishResult(st.k, closeOk).result,
               dir |-> st.dir] :
                 st \in {s \in loop : LoopDone(s.k)}, closeOk \in BOOLEAN}
        \cup {[status |-> "crashed", result |-> <<>>, dir |-> st.dir] : st \in loop}

-----------------------------------------------------------------------------
(* scripts/main.py __main__: the retry loop.                               *)
(*   pc  "loop"     at the top of while True                               *)
(*       "collect"  inside the executor block, in the as_completed loop    *)
(*       "done"     left the loop by a break                               *)
(*       "aborted"  an exception left the loop                             *)
(* workers[w] is the future of task w: status "pending", "returned" (with  *)
(* result) or "crashed"; collected once as_completed has yielded it.       *)

\* Rows the input file may hold.
RawNames == {<<"fwa">>, <<"b">>}

\* datetime.now().strftime("%Y%m%d_%H%M%S"): what the clock may read
Timestamps == {<<"20250723", "153139">>, <<"20250723", "160502">>}

\* A timestamp taken anew in every pass.
RunStamp_EveryPass(att, old, now) == now

\* Lines 263-265: the run's timestamp is taken on the first attempt only.
RunStamp(att, old, now) == IF att = 1 THEN now ELSE old

\* os.path.join("data", "outputs", f"SB_Report_{run_timestamp}")
OutputDir(ts) == <<"data", "outputs", "SB_Report_", ts[1], "_", ts[2]>>

\* input_csv = base_input_csv if attempt == 1 else failed_input_csv
InputRows == IF attempt = 1 THEN baseCsv ELSE failedCsv

NoWorker == NewWorker(<<>>)

Init ==
    /\ pc = "loop"
    /\ attempt = 1
    /\ run_timestamp = NoValue
    /\ output_dir = NoValue
    /\ baseCsv \in SeqsOf(RawNames, MaxNames)
    /\ failedCsv = <<>>
    /\ hospitals = <<>>
    /\ failed = <<>>
    /\ workers = <<>>
    /\ wk = NoWorker
    /\ pdfs = <<>>
    /\ variant = "main"
    /\ TO_DEBUG = FALSE
    /\ part = NoValue
    /\ num_workers = NUM_WORKERS
    /\ AsideInit

\* executor.submit(run_worker, args), args = (subset, output_dir, i + 1,
\* run_timestamp)
Future(subset, dir, ts) ==
    [subset |-> subset, output_dir |-> dir, run_timestamp |-> ts,
     status |-> "pending", result |-> <<>>, collected |-> FALSE]

\* Lines 247-260: the list read is empty.
NoHospitalsLeft ==
    /\ pc = "loop"
    /\ ReadHospitals(InputRows) = <<>>
    /\ hospitals' = <<>>
    /\ pc' = "done"
    /\ UNCHANGED <<attempt, run_timestamp, output_dir, baseCsv, failedCsv, failed,
                   workers, wk, pdfs, variant, TO_DEBUG, part, num_workers, aside>>

\* Lines 247-276: read the list, fix the run on the first attempt, split the
\* list and submit one worker_task per subset.
StartPass ==
    /\ pc = "loop"
    /\ ReadHospitals(InputRows) # <<>>
    /\ hospitals' = ReadHospitals(InputRows)
    /\ \E now \in Timestamps :
          /\ run_timestamp' = RunStamp(attempt, run_timestamp, now)
          /\ output_dir' = RunStamp(attempt, output_dir, OutputDir(now))
    /\ workers' = LET subsets == Subsets(hospitals', num_workers)
                  IN  [k \in DOMAIN subsets |->
                          Future(subsets[k], output_dir', run_timestamp')]
    /\ failed' = <<>>
    /\ pc' = "collect"
    /\ UNCHANGED <<attempt, baseCsv, failedCsv, wk, pdfs, variant, TO_DEBUG, part, num_workers, aside>>

\* run_worker(args) in a pool process: worker_task runs to its end, or the
\* process dies.
RunWorker(w) ==
    /\ pc = "collect"
    /\ w \in DOMAIN workers
    /\ workers[w].status = "pending"
    /\ \E run \in WorkerRuns(workers[w].subset, pdfs, workers[w].run_timestamp) :
          /\ workers' = [workers EXCEPT ![w].status = run.status,
                                        ![w].result = run.result]
          /\ pdfs' = run.dir
    /\ UNCHANGED <<pc, attempt, run_timestamp, output_dir, baseCsv, failedCsv,
                   hospitals, failed, wk, variant, TO_DEBUG, part, num_workers, aside>>

\* A merge that keeps the last result only.
Merge_Replace(list, result) == result

\* A merge that leaves out the names the list already holds.
Merge_Dedup(list, result) ==
    list \o SelectSeq(result, LAMBDA h : h \notin {list[i] : i \in 1..Len(list)})

\* failed.extend(result)
Merge(list, result) == list \o result

\* Lines 277-278: failed.extend(future.result()) for a future that completed.
Collect(w) ==
    /\ pc = "collect"
    /\ w \in DOMAIN workers
    /\ ~workers[w].collected
    /\ workers[w].status = "returned"
    /\ failed' = Merge(failed, workers[w].result)
    /\ workers' = [workers EXCEPT ![w].collected = TRUE]
    /\ UNCHANGED <<pc, attempt, run_timestamp, output_dir, baseCsv, failedCsv,
                   hospitals, wk, pdfs, variant, TO_DEBUG, part, num_workers, aside>>

\* Line 278: future.result() raises (the process of the task died and the
\* pool is broken); nothing in __main__ catches it.
CollectRaises(w) ==
    /\ pc = "collect"
    /\ w \in DOMAIN workers
    /\ ~workers[w].collected
    /\ workers[w].status = "crashed"
    /\ pc' = "aborted"
    /\ UNCHANGED <<attempt, run_timestamp, output_dir, baseCsv, failedCsv,
                   hospitals, failed, workers, wk, pdfs, variant, TO_DEBUG, part, num_workers, aside>>

AllCollected == \A w \in DOMAIN workers : workers[w].collected

\* A loop that goes round again whatever the pass gave.
ShouldRetry_Always(list) == TRUE

\* if failed:
ShouldRetry(list) == list # <<>>

\* attempt += 1 (the model stops counting at MaxAttempt)
NextAttempt(n) == IF n < MaxAttempt THEN n + 1 ELSE n

\* Lines 281-287: some name failed: write the list and go round again.
RetryPass ==
    /\ pc = "collect"
    /\ AllCollected
    /\ ShouldRetry(failed)
    /\ failedCsv' = failed
    /\ attempt' = NextAttempt(attempt)
    /\ workers' = <<>>
    /\ pc' = "loop"
    /\ UNCHANGED <<run_timestamp, output_dir, baseCsv, hospitals, failed, wk, pdfs,
                   variant, TO_DEBUG, part, num_workers, aside>>

\* Lines 288-290: no name failed: break.
AllSucceeded ==
    /\ pc = "collect"
    /\ AllCollected
    /\ ~ShouldRetry(failed)
    /\ workers' = <<>>
    /\ pc' = "done"
    /\ UNCHANGED <<attempt, run_timestamp, output_dir, baseCsv, failedCsv,
                   hospitals, failed, wk, pdfs, variant, TO_DEBUG, part, num_workers, aside>>

Next ==
    \/ NoHospitalsLeft
    \/ StartPass
    \/ \E w \in 1..NUM_WORKERS : RunWorker(w)
    \/ \E w \in 1..NUM_WORKERS : Collect(w)
    \/ \E w \in 1..NUM_WORKERS : CollectRaises(w)
    \/ RetryPass
    \/ AllSucceeded

Spec == Init /\ [][Next]_vars

-----------------------------------------------------------------------------
(* The retry loop of scripts/main.py for a list of three names and any     *)
(* configured number of workers.  "a", "b", "c" stand for "A Hospital",    *)
(* "B Hospital", "C Hospital".                                             *)

ScenarioList == <<<<"a">>, <<"b">>, <<"c">>>>

ScenarioInit ==
    /\ pc = "loop"
    /\ attempt = 1
    /\ run_timestamp = NoValue
    /\ output_dir = NoValue
    /\ baseCsv \in {<<>>, ScenarioList}
    /\ failedCsv = <<>>
    /\ hospitals = <<>>
    /\ failed = <<>>
    /\ workers = <<>>
    /\ wk = NoWorker
    /\ pdfs = <<>>
    /\ variant = "main"
    /\ TO_DEBUG = FALSE
    /\ part = NoValue
    /\ num_workers \in 1..NUM_WORKERS
    /\ AsideInit

ScenarioSpec == ScenarioInit /\ [][Next]_vars

-----------------------------------------------------------------------------
(* The Selenium workers: src/functions_v2.py worker_task and                *)
(* src/functions.py worker_task.  status "launched": the driver is up, the *)
(* dashboard not yet loaded.                                               *)

\* functions_v2.py lines 119-125 / functions.py lines 307-319: the calls that
\* may raise before a driver exists.
SeLaunchStages == {"webdriver_path", "chrome"}

\* driver.quit()
Quit(k) == [k EXCEPT !.driver = "stopped", !.browser = "closed"]

\* functions_v2.py lines 118-128, functions.py lines 307-322
SeLaunchResult(k, stage) ==
    IF stage = "ok"
    THEN [k EXCEPT !.status = "launched", !.setup = "launched",
                   !.driver = "running", !.browser = "open",
                   !.launches = @ + 1]
    ELSE ReturnSubset([k EXCEPT !.setup = stage,
                                !.launches = IF stage = "chrome" THEN @ + 1 ELSE @])

\* functions_v2.py lines 131-139 and 156-157, functions.py lines 324-336 and
\* 370-371: driver.get inside try/finally; a failure to find the iframe is
\* swallowed, a failure of driver.get is not.
SeLoadResult(k, ok) ==
    IF ok
    THEN [k EXCEPT !.status = "running", !.setup = "ok", !.loads = @ + 1]
    ELSE [Quit(k) EXCEPT !.status = "raised", !.setup = "get", !.loads = @ + 1]

\* What one iteration can do: the selector raises, the pdf step raises, or the
\* pdf is written showing whatever the first search result selected.
SeEffects ==
    {[kind |-> "select_raises", shown |-> <<>>], [kind |-> "pdf_raises", shown |-> <<>>]}
    \cup {[kind |-> "exported", shown |-> l] : l \in Labels}

\* functions_v2.py line 147: f"SB_Report_{safe_name}_{timestamp}.pdf"
\* functions.py line 358:    f"{safe_name}.pdf"
SePdfName(v, ts, h) ==
    IF v = "v2"
    THEN <<"SB_Report_">> \o safe_name(h) \o <<"_", ts[1], "_", ts[2], ".pdf">>
    ELSE safe_name(h) \o <<".pdf">>

SeWritePdf(v, dir, ts, hospital, shown) ==
    LET name == SePdfName(v, ts, hospital)
    IN  [f \in DOMAIN dir \cup {name} |->
            IF f = name THEN [for |-> hospital, shown |-> shown] ELSE dir[f]]

\* functions.py lines 339-341 and 363-365: in debug mode the exception leaves
\* the loop (and worker_task, through finally: driver.quit()).
Propagates(v, debug) == v = "functions" /\ debug

\* functions_v2.py lines 141-155, functions.py lines 337-368: one iteration.
SeLoopBody(st, v, debug, ts, eff) ==
    LET hospital == st.k.subset[st.k.idx]
        next(how) == [st.k EXCEPT !.idx = @ + 1, !.log = Append(@, how)]
    IN  IF eff.kind = "exported"
        THEN [k |-> next("exported"),
              dir |-> SeWritePdf(v, st.dir, ts, hospital, eff.shown)]
        ELSE IF Propagates(v, debug)
        THEN [k |-> [Quit(st.k) EXCEPT !.status = "raised"], dir |-> st.dir]
        ELSE [k |-> RecordFailure(next("failed"), hospital), dir |-> st.dir]

\* functions_v2.py lines 156-158, functions.py lines 370-373
SeFinishResult(k) == ReturnFailed(Quit(k))

SeLaunch ==
    /\ variant \in {"v2", "functions"}
    /\ wk.status = "pending"
    /\ \E stage \in SeLaunchStages \cup {"ok"} : wk' = SeLaunchResult(wk, stage)
    /\ UNCHANGED <<pc, attempt, run_timestamp, output_dir, baseCsv, failedCsv,
                   hospitals, failed, workers, pdfs, variant, TO_DEBUG, part, num_workers, aside>>

SeLoad ==
    /\ variant \in {"v2", "functions"}
    /\ wk.status = "launched"
    /\ \E ok \in BOOLEAN : wk' = SeLoadResult(wk, ok)
    /\ UNCHANGED <<pc, attempt, run_timestamp, output_dir, baseCsv, failedCsv,
                   hospitals, failed, workers, pdfs, variant, TO_DEBUG, part, num_workers, aside>>

SeAttempt ==
    /\ variant \in {"v2", "functions"}
    /\ wk.status = "running"
    /\ ~LoopDone(wk)
    /\ \E eff \in SeEffects :
          LET st == SeLoopBody([k |-> wk, dir |-> pdfs], variant, TO_DEBUG,
                               run_timestamp, eff)
          IN  /\ wk' = st.k
              /\ pdfs' = st.dir
    /\ UNCHANGED <<pc, attempt, run_timestamp, output_dir, baseCsv, failedCsv,
                   hospitals, failed, workers, variant, TO_DEBUG, part, num_workers, aside>>

SeFinish ==
    /\ variant \in {"v2", "functions"}
    /\ wk.status = "running"
    /\ LoopDone(wk)
    /\ wk' = SeFinishResult(wk)
    /\ UNCHANGED <<pc, attempt, run_timestamp, output_dir, baseCsv, failedCsv,
                   hospitals, failed, workers, pdfs, variant, TO_DEBUG, part, num_workers, aside>>

\* One worker_task call on its own, of any of the three programs.
WorkerInit ==
    /\ pc = "worker"
    /\ attempt = 1
    /\ run_timestamp \in Timestamps
    /\ output_dir = OutputDir(run_timestamp)
    /\ baseCsv = <<>>
    /\ failedCsv = <<>>
    /\ hospitals = <<>>
    /\ failed = <<>>
    /\ workers = <<>>
    /\ wk \in {NewWorker(subset) : subset \in SeqsOf(Names, MaxSubset) \ {<<>>}}
    /\ pdfs = <<>>
    /\ variant \in {"main", "v2", "functions"}
    /\ TO_DEBUG \in (IF variant = "functions" THEN BOOLEAN ELSE {FALSE})
    /\ part = NoValue
    /\ num_workers = NUM_WORKERS
    /\ AsideInit

WorkerNext ==
    \/ Setup
    \/ AttemptName
    \/ Finish
    \/ SeLaunch
    \/ SeLoad
    \/ SeAttempt
    \/ SeFinish

WorkerSpec == WorkerInit /\ [][WorkerNext]_vars

-----------------------------------------------------------------------------
(* The partition expression on its own (scripts/main.py lines 269-270,     *)
(* notebooks/main_v2.py lines 157-158, src/functions.py lines 433-434).    *)

PartInit ==
    /\ pc = "part"
    /\ attempt = 1
    /\ run_timestamp = NoValue
    /\ output_dir = NoValue
    /\ baseCsv = <<>>
    /\ failedCsv = <<>>
    /\ hospitals = <<>>
    /\ failed = <<>>
    /\ workers = <<>>
    /\ wk = NoWorker
    /\ pdfs = <<>>
    /\ variant = "main"
    /\ TO_DEBUG = FALSE
    /\ part \in {[list |-> l, w |-> w, state |-> "input", subsets |-> <<>>,
                  ranges |-> <<>>] :
                    l \in SeqsOf(Names, MaxPartLen), w \in 1..MaxPartWorkers}
    /\ num_workers = NUM_WORKERS
    /\ AsideInit

\* The list is not empty: the step is positive and the slices are taken.
Partition ==
    /\ pc = "part"
    /\ part.state = "input"
    /\ split_size(part.list, part.w) > 0
    /\ part' = [part EXCEPT !.state = "split",
                            !.subsets = Subsets(part.list, part.w),
                            !.ranges = ChunkRanges(part.list,
                                                   split_size(part.list, part.w))]
    /\ UNCHANGED <<pc, attempt, run_timestamp, output_dir, baseCsv, failedCsv,
                   hospitals, failed, workers, wk, pdfs, variant, TO_DEBUG, num_workers, aside>>

\* The list is empty: split_size is 0 and range(0, 0, 0) raises ValueError.
PartitionRaises ==
    /\ pc = "part"
    /\ part.state = "input"
    /\ split_size(part.list, part.w) = 0
    /\ part' = [part EXCEPT !.state = "raised"]
    /\ UNCHANGED <<pc, attempt, run_timestamp, output_dir, baseCsv, failedCsv,
                   hospitals, failed, workers, wk, pdfs, variant, TO_DEBUG, num_workers, aside>>

PartNext == Partition \/ PartitionRaises

PartSpec == PartInit /\ [][PartNext]_vars

\* The retry loop under the scheduling the code has: the main process and
\* every pool process keep running, so a step that can be taken is taken.
FairSpec == Spec /\ WF_vars(Next)

-----------------------------------------------------------------------------
(* Functions on their own: each specification below draws the arguments of *)
(* one function in its initial state and has the function applied.         *)

\* No run of scripts/main.py is under way.
NoRun ==
    /\ attempt = 1
    /\ output_dir = NoValue
    /\ failedCsv = <<>>
    /\ failed = <<>>
    /\ workers = <<>>
    /\ wk = NoWorker
    /\ TO_DEBUG = FALSE
    /\ part = NoValue
    /\ num_workers = NUM_WORKERS

-----------------------------------------------------------------------------
(* The pdf file name of a facility name (scripts/main.py lines 204-205,    *)
(* notebooks/main_v2.py lines 99-100), for two names of one run.           *)

\* Characters of facility names: a letter, two of the characters the
\* sanitisation replaces, and the character it replaces them with.
FileChars == {"a", "/", ":", "_"}

FileNameInputs == SeqsOf(FileChars, MaxFileNameLen) \ {<<>>}

\* scripts/main.py:      f"SB_Report_{date_for_filename}_{safe_name}.pdf"
\* notebooks/main_v2.py: f"SB_Report_{safe_name}_{run_timestamp}.pdf"
FileNameOf(v, ts, h) ==
    IF v = "main"
    THEN pdf_name(ts, h)
    ELSE <<"SB_Report_">> \o safe_name(h) \o <<"_", ts[1], "_", ts[2], ".pdf">>

FileNameInit ==
    /\ pc = "call"
    /\ NoRun
    /\ run_timestamp \in Timestamps
    /\ baseCsv = <<>>
    /\ hospitals = <<>>
    /\ pdfs = <<>>
    /\ variant \in {"main", "notebook"}
    /\ call \in {[fn |-> "pdf_name", state |-> "input", names |-> <<h1, h2>>,
                  files |-> <<>>] : h1 \in FileNameInputs, h2 \in FileNameInputs}
    /\ missing_csv = NoFile
    /\ validated = <<>>

\* The file names the worker computes for the two names.
NameFiles ==
    /\ pc = "call"
    /\ call.fn = "pdf_name"
    /\ call.state = "input"
    /\ call' = [call EXCEPT !.state = "named",
                            !.files = [i \in 1..2 |->
                                FileNameOf(variant, run_timestamp, call.names[i])]]
    /\ UNCHANGED <<pc, attempt, run_timestamp, output_dir, baseCsv, failedCsv,
                   hospitals, failed, workers, wk, pdfs, variant, TO_DEBUG, part,
                   num_workers, missing_csv, validated>>

FileNameNext == NameFiles

FileNameSpec == FileNameInit /\ [][FileNameNext]_vars

-----------------------------------------------------------------------------
(* select_first_search_result of scripts/main.py on its own, on a dropdown *)
(* of two labels that differ in an apostrophe and an s.  A word stands for *)
(* its characters, none of them a space.                                   *)

SaintMary == <<"Saint", " ", "Mary", " ", "Hospital">>

SaintMarys == <<"Saint", " ", "Mary", "'", "s", " ", "Hospital">>

\* The first label as a page may show it, with a no-break space.
SaintMaryNbsp == <<"Saint", "nbsp", "Mary", " ", "Hospital">>

SelectorLabels == {SaintMary, SaintMarys, SaintMaryNbsp}

\* The names the worker asks for (normalized, as line 254 leaves them).
SelectorTargets == {SaintMary, SaintMarys}

\* An item of the dropdown: unreadable, or a label with its two click answers.
SelectorItems ==
    {[text |-> <<>>, read |-> FALSE, click |-> <<FALSE, FALSE>>]}
    \cup {[text |-> l, read |-> TRUE, click |-> <<c1, c2>>] :
             l \in SelectorLabels, c1 \in BOOLEAN, c2 \in BOOLEAN}

\* What the dashboard may answer during the call.
SelectorUIs ==
    {[open |-> o, search |-> s, wait |-> w, items |-> its, close |-> c,
      selected |-> r] :
        o \in OpenAnswers \cup {<<FALSE, FALSE>>}, s \in BOOLEAN, w \in BOOLEAN,
        its \in {<<>>} \cup {<<i1, i2>> : i1 \in SelectorItems, i2 \in SelectorItems},
        c \in BOOLEAN,
        r \in {NoRead} \cup {[ok |-> TRUE, v |-> l] : l \in SelectorLabels}}

\* The states the dropdown may be in when the call has ended.  It is open
\* once the search input was seen (line 88), and the one call that closes it
\* is the click on body (line 155), made only after a click on an item.
\* Where the page alone decides (the search input was never seen; the click
\* on body raised) both states are possible.
DropdownAfter(ui, r) ==
    IF r.outcome = "dropdown_open" THEN {"closed", "open"}
    ELSE IF r.clicked = 0 THEN {"open"}
    ELSE IF ui.close THEN {"closed"}
    ELSE {"closed", "open"}

\* A worker of scripts/main.py in its loop, about to call the selector for
\* the one name of its subset.
SelectorInit ==
    /\ pc = "call"
    /\ attempt = 1
    /\ run_timestamp = <<"20250723", "153139">>
    /\ output_dir = OutputDir(run_timestamp)
    /\ baseCsv = <<>>
    /\ failedCsv = <<>>
    /\ hospitals = <<>>
    /\ failed = <<>>
    /\ workers = <<>>
    /\ pdfs = <<>>
    /\ variant = "main"
    /\ TO_DEBUG = FALSE
    /\ part = NoValue
    /\ num_workers = NUM_WORKERS
    /\ call \in {[fn |-> "select", state |-> "input", hospital |-> h, ui |-> ui,
                  result |-> NoValue, dropdown |-> "closed"] :
                    h \in SelectorTargets, ui \in SelectorUIs}
    /\ wk = SetupResult(NewWorker(<<call.hospital>>), "ok")
    /\ missing_csv = NoFile
    /\ validated = <<>>

\* select_first_search_result(frame, hospital, ...) returns or raises.
Select ==
    /\ pc = "call"
    /\ call.fn = "select"
    /\ call.state = "input"
    /\ LET r == select_first_search_result(call.hospital, call.ui)
       IN  \E d \in DropdownAfter(call.ui, r) :
              call' = [call EXCEPT !.state = "returned", !.result = r,
                                   !.dropdown = d]
    /\ UNCHANGED <<pc, attempt, run_timestamp, output_dir, baseCsv, failedCsv,
                   hospitals, failed, workers, wk, pdfs, variant, TO_DEBUG, part,
                   num_workers, missing_csv, validated>>

\* Lines 200-218: the rest of the loop body around the call: the pdf is
\* written after a normal return (page.pdf may raise), the name is appended
\* to failed after an exception, and the loop goes on to the next name.
HandleResult ==
    /\ pc = "call"
    /\ call.fn = "select"
    /\ call.state = "returned"
    /\ \E pdfOk \in BOOLEAN :
          LET eff == IF Exported(call.result, pdfOk)
                     THEN [exported |-> TRUE, shown |-> call.result.reread.v]
                     ELSE [exported |-> FALSE, shown |-> <<>>]
              st  == LoopBody([k |-> wk, dir |-> pdfs], run_timestamp, eff)
          IN  /\ wk' = st.k
              /\ pdfs' = st.dir
    /\ call' = [call EXCEPT !.state = "handled"]
    /\ UNCHANGED <<pc, attempt, run_timestamp, output_dir, baseCsv, failedCsv,
                   hospitals, failed, workers, variant, TO_DEBUG, part,
                   num_workers, missing_csv, validated>>

SelectorNext == Select \/ HandleResult

SelectorSpec == SelectorInit /\ [][SelectorNext]_vars

-----------------------------------------------------------------------------
(* normalize_text of scripts/main.py on its own, and the two comparisons   *)
(* of the selector that use it (lines 124 and 163).  None and "" are the   *)
(* one value <<>>: `s or ""` gives "" for both.                            *)

TextChars == {"a", " ", "nbsp", "fwa", "dia"}

TextInit ==
    /\ pc = "call"
    /\ NoRun
    /\ run_timestamp = NoValue
    /\ baseCsv = <<>>
    /\ hospitals = <<>>
    /\ pdfs = <<>>
    /\ variant = "main"
    /\ call \in {[fn |-> "normalize_text", state |-> "input", text |-> t,
                  hospital |-> h, once |-> <<>>, twice |-> <<>>,
                  matched |-> FALSE, matchedNormalized |-> FALSE,
                  verified |-> "", verifiedNormalized |-> ""] :
                    t \in SeqsOf(TextChars, MaxTextLen),
                    h \in SeqsOf(TextChars, MaxTargetLen)}
    /\ missing_csv = NoFile
    /\ validated = <<>>

\* normalize_text(text)
Normalize ==
    /\ pc = "call"
    /\ call.fn = "normalize_text"
    /\ call.state = "input"
    /\ call' = [call EXCEPT !.state = "once", !.once = normalize_text(call.text)]
    /\ UNCHANGED <<pc, attempt, run_timestamp, output_dir, baseCsv, failedCsv,
                   hospitals, failed, workers, wk, pdfs, variant, TO_DEBUG, part,
                   num_workers, missing_csv, validated>>

\* normalize_text of what normalize_text returned
NormalizeAgain ==
    /\ pc = "call"
    /\ call.fn = "normalize_text"
    /\ call.state = "once"
    /\ call' = [call EXCEPT !.state = "twice", !.twice = normalize_text(call.once)]
    /\ UNCHANGED <<pc, attempt, run_timestamp, output_dir, baseCsv, failedCsv,
                   hospitals, failed, workers, wk, pdfs, variant, TO_DEBUG, part,
                   num_workers, missing_csv, validated>>

\* The closed dropdown reads text.
Showing(text) == [DefaultUI EXCEPT !.selected = [ok |-> TRUE, v |-> text]]

\* The selector's comparisons of a label reading text with the target
\* hospital (line 124 on an item, line 163 on the closed dropdown), on the
\* texts as they are and on their normalized forms.
Compare ==
    /\ pc = "call"
    /\ call.fn = "normalize_text"
    /\ call.state = "twice"
    /\ call' = [call EXCEPT
          !.state = "compared",
          !.matched = ItemMatches(1, call.text, call.hospital),
          !.matchedNormalized = ItemMatches(1, normalize_text(call.text),
                                            normalize_text(call.hospital)),
          !.verified = VerifyOutcome(Showing(call.text), call.hospital),
          !.verifiedNormalized = VerifyOutcome(Showing(normalize_text(call.text)),
                                               normalize_text(call.hospital))]
    /\ UNCHANGED <<pc, attempt, run_timestamp, output_dir, baseCsv, failedCsv,
                   hospitals, failed, workers, wk, pdfs, variant, TO_DEBUG, part,
                   num_workers, missing_csv, validated>>

TextNext == Normalize \/ NormalizeAgain \/ Compare

TextSpec == TextInit /\ [][TextNext]_vars

-----------------------------------------------------------------------------
(* scripts/validate.py: the reconciliation of a name list with the output  *)
(* directory.  baseCsv holds the first column of HOSPITALS_CSV, output_dir *)
(* is OUTPUT_DIR, pdfs and missing_csv are the files in it.                *)

\* str.lower() on the texts of the model.
Lower(c) ==
    CASE c = "FACILITY_NAME" -> "facility_name"
      [] c = ".PDF"          -> ".pdf"
      [] OTHER               -> c

\* validate.py normalize: replace the illegal characters, collapse whitespace.
normalize(name) == JoinSp(Split(Strip(safe_name(name))))

\* A file name that names the report of missing names as if it were the pdf
\* of the facility "a".
MissingCsvName_AsPdf == <<"SB_Report_", "a", "_", "20250723", "_", "153139", ".pdf">>

\* os.path.basename(MISSING_CSV)
MissingCsvName == <<"missing_pdfs", ".csv">>

\* Lines 17-20: the first column of the rows, without a leading header row.
LoadHospitals(rows) ==
    IF rows # <<>>
       /\ [i \in 1..Len(Strip(rows[1])) |-> Lower(Strip(rows[1])[i])] = <<"facility_name">>
    THEN Tail(rows)
    ELSE rows

\* os.path.basename(OUTPUT_DIR).replace("SB_Report_", "")
Runstamp(dir) == SubSeq(dir, 4, Len(dir))

\* f"SB_Report_{normalize(h)}_{runstamp}.pdf"
ExpectedName(h, runstamp) ==
    <<"SB_Report_">> \o normalize(h) \o <<"_">> \o runstamp \o <<".pdf">>

\* d[key] = val on a dict kept as the sequence of its items: a key already
\* there keeps its place and takes the new value.
DictPut(d, key, val) ==
    IF \E i \in 1..Len(d) : d[i].fname = key
    THEN [i \in 1..Len(d) |-> IF d[i].fname = key THEN [fname |-> key, h |-> val]
                                                ELSE d[i]]
    ELSE Append(d, [fname |-> key, h |-> val])

\* Lines 26-29: {f"SB_Report_{normalize(h)}_{runstamp}.pdf": h for h in hospitals}
RECURSIVE ExpectedFrom(_, _, _)
ExpectedFrom(list, runstamp, d) ==
    IF list = <<>> THEN d
    ELSE ExpectedFrom(Tail(list), runstamp,
                      DictPut(d, ExpectedName(Head(list), runstamp), Head(list)))

expected_pdf_names(list, runstamp) == ExpectedFrom(list, runstamp, <<>>)

\* os.listdir(OUTPUT_DIR)
ListDir(dir, csv) == DOMAIN dir \cup (IF csv.exists THEN {MissingCsvName} ELSE {})

\* Line 32: the files of the listing whose lower-cased name ends with ".pdf".
actual_pdf_files(listing) == {f \in listing : f # <<>> /\ Lower(f[Len(f)]) = ".pdf"}

\* Line 33: [h for fname, h in expected_pdf_names.items() if fname not in actual_pdf_files]
RECURSIVE MissingFrom(_, _)
MissingFrom(d, actual) ==
    IF d = <<>> THEN <<>>
    ELSE (IF Head(d).fname \notin actual THEN <<Head(d).h>> ELSE <<>>)
         \o MissingFrom(Tail(d), actual)

missing_pdfs(list, dir, csv, outdir) ==
    MissingFrom(expected_pdf_names(list, Runstamp(outdir)),
                actual_pdf_files(ListDir(dir, csv)))

\* A report written whether or not a name is missing.
ShouldWriteMissing_Always(missing) == TRUE

\* if missing_pdfs:
ShouldWriteMissing(missing) == missing # <<>>

\* Rows the list may hold: names, two of which get the file name of another,
\* and the header.
ValidateRows == {<<"a">>, <<"/">>, <<"_">>, <<"nbsp", "a">>, <<"FACILITY_NAME">>}

\* Files the directory may hold when validate.py starts.
ValidateFiles(outdir) ==
    {ExpectedName(<<"a">>, Runstamp(outdir)),
     ExpectedName(<<"_">>, Runstamp(outdir)),
     <<"SB_Report_", "a", "_">> \o Runstamp(outdir) \o <<".PDF">>}

ValidateInit ==
    /\ pc = "validate"
    /\ attempt = 1
    /\ run_timestamp = NoValue
    /\ output_dir \in {OutputDir(ts) : ts \in Timestamps}
    /\ baseCsv \in SeqsOf(ValidateRows, MaxValidateRows)
    /\ failedCsv = <<>>
    /\ hospitals = <<>>
    /\ failed = <<>>
    /\ workers = <<>>
    /\ wk = NoWorker
    /\ \E files \in SUBSET ValidateFiles(output_dir) :
          pdfs = [f \in files |-> [for |-> <<>>, shown |-> <<>>]]
    /\ variant = "validate"
    /\ TO_DEBUG = FALSE
    /\ part = NoValue
    /\ num_workers = NUM_WORKERS
    /\ call = NoCall
    /\ missing_csv \in {NoFile, [exists |-> TRUE, rows |-> <<<<"a">>>>]}
    /\ validated = <<>>

\* One run of scripts/validate.py.
Validate ==
    /\ pc = "validate"
    /\ Len(validated) < MaxValidateRuns
    /\ hospitals' = LoadHospitals(baseCsv)
    /\ LET missing == missing_pdfs(hospitals', pdfs, missing_csv, output_dir)
       IN  /\ validated' = Append(validated, missing)
           /\ missing_csv' = IF ShouldWriteMissing(missing)
                             THEN [exists |-> TRUE, rows |-> missing]
                             ELSE missing_csv
    /\ UNCHANGED <<pc, attempt, run_timestamp, output_dir, baseCsv, failedCsv,
                   failed, workers, wk, pdfs, variant, TO_DEBUG, part,
                   num_workers, call>>

ValidateNext == Validate

ValidateSpec == ValidateInit /\ [][ValidateNext]_vars

-----------------------------------------------------------------------------
(* An export run followed by scripts/validate.py on the run's directory:   *)
(* the reports of the rows of one name list are written as the worker of   *)
(* scripts/main.py or of notebooks/main_v2.py names them, then the list is *)
(* reconciled with the directory.                                          *)

\* Rows of the name list: two plain names, one with a replaced character and
\* one with two spaces in a row.
ReconcileRows == {<<"a">>, <<"b">>, <<"a", "/", "b">>, <<"a", " ", " ", "b">>}

\* The name the worker is handed for a row: scripts/main.py line 254 reads
\* the rows through normalize_text, notebooks/main_v2.py line 133 as they are.
ExportedName(v, row) == IF v = "main" THEN normalize_text(row) ELSE row

\* page.pdf(path=os.path.join(output_dir, pdf_name)) for the row.
WriteReport(dir, v, ts, row) ==
    LET name == FileNameOf(v, ts, ExportedName(v, row))
    IN  [f \in DOMAIN dir \cup {name} |->
            IF f = name
            THEN [for |-> ExportedName(v, row), shown |-> ExportedName(v, row)]
            ELSE dir[f]]

ReconcileInit ==
    /\ pc = "export"
    /\ NoRun
    /\ run_timestamp \in Timestamps
    /\ baseCsv \in SeqsOf(ReconcileRows, MaxReconcileRows) \ {<<>>}
    /\ hospitals = <<>>
    /\ pdfs = <<>>
    /\ variant \in {"main", "notebook"}
    /\ call = [fn |-> "export", idx |-> 1]
    /\ missing_csv = NoFile
    /\ validated = <<>>

\* The report of the next row is exported: the pdf is written.
ExportReport ==
    /\ pc = "export"
    /\ call.idx <= Len(baseCsv)
    /\ output_dir' = OutputDir(run_timestamp)
    /\ pdfs' = WriteReport(pdfs, variant, run_timestamp, baseCsv[call.idx])
    /\ call' = [call EXCEPT !.idx = @ + 1]
    /\ UNCHANGED <<pc, attempt, run_timestamp, baseCsv, failedCsv, hospitals,
                   failed, workers, wk, variant, TO_DEBUG, part, num_workers,
                   missing_csv, validated>>

\* The attempt for the next row fails: nothing is written.
ExportFails ==
    /\ pc = "export"
    /\ call.idx <= Len(baseCsv)
    /\ output_dir' = OutputDir(run_timestamp)
    /\ call' = [call EXCEPT !.idx = @ + 1]
    /\ UNCHANGED <<pc, attempt, run_timestamp, baseCsv, failedCsv, hospitals,
                   failed, workers, wk, pdfs, variant, TO_DEBUG, part,
                   num_workers, missing_csv, validated>>

\* The export run is over; scripts/validate.py is started on its directory.
StartValidate ==
    /\ pc = "export"
    /\ call.idx > Len(baseCsv)
    /\ pc' = "validate"
    /\ UNCHANGED <<attempt, run_timestamp, output_dir, baseCsv, failedCsv,
                   hospitals, failed, workers, wk, pdfs, variant, TO_DEBUG, part,
                   num_workers, aside>>

ReconcileNext == ExportReport \/ ExportFails \/ StartValidate \/ Validate

ReconcileSpec == ReconcileInit /\ [][ReconcileNext]_vars

-----------------------------------------------------------------------------
(* src/functions.py attempt_run.                                           *)
(*   pc  "ar_read"      before the name list is read                       *)
(*       "ar_dispatch"  list and worker count settled (line 430)           *)
(*       "ar_collect"   the worker(s) run and their results are taken      *)
(*       "ar_ended"     attempt_run returned or raised: call.outcome       *)
(* baseCsv is the first column of HOSPITALS_CSV, failedCsv the rows of     *)
(* FAILED_HOSPITALS (opened in append mode), call.before its rows when     *)
(* attempt_run was entered.                                                *)

\* REPORTS_DIR
REPORTS_DIR == <<"..", "data", "outputs">>

\* How attempt_run ends.
ReturnsTrue == [kind |-> "True", step |-> ""]
StepFailure(step_name) == [kind |-> "StepFailure", step |-> step_name]
OtherException(name) == [kind |-> "exception", step |-> name]
Running == [kind |-> "none", step |-> ""]

\* list[:n] for n >= 0
Take(list, n) == SubSeq(list, 1, Min(n, Len(list)))

\* Every state the loop of the Selenium worker can be in, from st on; the
\* loop stops where an exception leaves it.
RECURSIVE SeLoopStates(_, _, _, _)
SeLoopStates(st, v, debug, ts) ==
    IF st.k.status = "raised" \/ LoopDone(st.k) THEN {st}
    ELSE {st} \cup UNION {SeLoopStates(SeLoopBody(st, v, debug, ts, eff), v, debug, ts) :
                             eff \in SeEffects}

\* How a call of the Selenium worker_task on subset can end: it returns a
\* list, it raises, or (in a pool process) the process dies.
SeWorkerRuns(subset, v, debug, dir, ts) ==
    LET k0       == NewWorker(subset)
        launched == SeLaunchResult(k0, "ok")
        loop     == SeLoopStates([k |-> SeLoadResult(launched, TRUE), dir |-> dir],
                                 v, debug, ts)
    IN  {[status |-> "returned", result |-> SeLaunchResult(k0, stage).result,
          dir |-> dir] : stage \in SeLaunchStages}
        \cup {[status |-> "raised", result |-> <<>>, dir |-> dir]}
        \cup {[status |-> "returned", result |-> SeFinishResult(st.k).result,
               dir |-> st.dir] : st \in {s \in loop : s.k.status = "running"
                                                      /\ LoopDone(s.k)}}
        \cup {[status |-> "raised", result |-> <<>>, dir |-> st.dir] :
                 st \in {s \in loop : s.k.status = "raised"}}
        \cup {[status |-> "crashed", result |-> <<>>, dir |-> st.dir] : st \in loop}

\* Names of HOSPITALS_CSV and the worker counts the user may enter.
AttemptRunRows == {<<"a">>, <<"b">>}

AttemptRunInit ==
    /\ pc = "ar_read"
    /\ attempt = 1
    /\ run_timestamp = NoValue
    /\ output_dir = REPORTS_DIR
    /\ baseCsv \in SeqsOf(AttemptRunRows, MaxAttemptRunRows)
    /\ failedCsv \in {<<>>, <<<<"c">>>>}
    /\ hospitals = <<>>
    /\ failed = <<>>
    /\ workers = <<>>
    /\ wk = NoWorker
    /\ pdfs = <<>>
    /\ variant = "functions"
    /\ TO_DEBUG \in BOOLEAN
    /\ part = NoValue
    /\ num_workers = NUM_WORKERS
    /\ call = [fn |-> "attempt_run", before |-> failedCsv, outcome |-> Running]
    /\ missing_csv = NoFile
    /\ validated = <<>>

\* Lines 394-428: the list is read, the header row dropped, and the list and
\* the worker count are cut down (debug mode) or taken from the user.
ArRead ==
    /\ pc = "ar_read"
    /\ LET list == LoadHospitals(baseCsv)
       IN  IF TO_DEBUG
           THEN /\ hospitals' = Take(list, 1)
                /\ num_workers' = 1
           ELSE /\ \E n \in 0..Len(list) : hospitals' = Take(list, n)
                /\ num_workers' \in 1..MaxAttemptRunWorkers
    /\ pc' = "ar_dispatch"
    /\ UNCHANGED <<attempt, run_timestamp, output_dir, baseCsv, failedCsv, failed,
                   workers, wk, pdfs, variant, TO_DEBUG, part, aside>>

\* Lines 394-401: reading HOSPITALS_CSV raises.
ArReadRaises ==
    /\ pc = "ar_read"
    /\ pc' = "ar_ended"
    /\ call' = [call EXCEPT !.outcome = StepFailure("read_csv")]
    /\ UNCHANGED <<attempt, run_timestamp, output_dir, baseCsv, failedCsv,
                   hospitals, failed, workers, wk, pdfs, variant, TO_DEBUG, part,
                   num_workers, missing_csv, validated>>

\* Lines 430-438: one worker is called directly, several are submitted to a
\* pool on the slices of the list.
ArDispatch ==
    /\ pc = "ar_dispatch"
    /\ num_workers = 1 \/ split_size(hospitals, num_workers) > 0
    /\ workers' = IF num_workers = 1
                  THEN <<Future(hospitals, REPORTS_DIR, NoValue)>>
                  ELSE LET subsets == Subsets(hospitals, num_workers)
                       IN  [k \in DOMAIN subsets |->
                               Future(subsets[k], REPORTS_DIR, NoValue)]
    /\ failed' = <<>>
    /\ pc' = "ar_collect"
    /\ UNCHANGED <<attempt, run_timestamp, output_dir, baseCsv, failedCsv,
                   hospitals, wk, pdfs, variant, TO_DEBUG, part, num_workers, aside>>

\* Lines 433-434: the list is empty and there are several workers: split_size
\* is 0 and range(0, 0, 0) raises ValueError.
ArDispatchRaises ==
    /\ pc = "ar_dispatch"
    /\ num_workers # 1
    /\ split_size(hospitals, num_workers) = 0
    /\ pc' = "ar_ended"
    /\ call' = [call EXCEPT !.outcome = OtherException("ValueError")]
    /\ UNCHANGED <<attempt, run_timestamp, output_dir, baseCsv, failedCsv,
                   hospitals, failed, workers, wk, pdfs, variant, TO_DEBUG, part,
                   num_workers, missing_csv, validated>>

\* worker_task runs to its end; only a pool process can die on its own.
ArRunWorker(w) ==
    /\ pc = "ar_collect"
    /\ w \in DOMAIN workers
    /\ workers[w].status = "pending"
    /\ \E run \in SeWorkerRuns(workers[w].subset, variant, TO_DEBUG, pdfs, NoValue) :
          /\ run.status = "crashed" => num_workers # 1
          /\ workers' = [workers EXCEPT ![w].status = run.status,
                                        ![w].result = run.result]
          /\ pdfs' = run.dir
    /\ UNCHANGED <<pc, attempt, run_timestamp, output_dir, baseCsv, failedCsv,
                   hospitals, failed, wk, variant, TO_DEBUG, part, num_workers, aside>>

\* Line 431: failed = worker_task(...); line 440: failed.extend(future.result())
ArCollect(w) ==
    /\ pc = "ar_collect"
    /\ w \in DOMAIN workers
    /\ ~workers[w].collected
    /\ workers[w].status = "returned"
    /\ failed' = Merge(failed, workers[w].result)
    /\ workers' = [workers EXCEPT ![w].collected = TRUE]
    /\ UNCHANGED <<pc, attempt, run_timestamp, output_dir, baseCsv, failedCsv,
                   hospitals, wk, pdfs, variant, TO_DEBUG, part, num_workers, aside>>

\* Lines 431 and 440: worker_task raised, or its process died: the exception
\* leaves attempt_run.
ArCollectRaises(w) ==
    /\ pc = "ar_collect"
    /\ w \in DOMAIN workers
    /\ ~workers[w].collected
    /\ workers[w].status \in {"raised", "crashed"}
    /\ pc' = "ar_ended"
    /\ call' = [call EXCEPT !.outcome =
                   IF workers[w].status = "crashed"
                   THEN OtherException("BrokenProcessPool")
                   ELSE OtherException("worker_task")]
    /\ UNCHANGED <<attempt, run_timestamp, output_dir, baseCsv, failedCsv,
                   hospitals, failed, workers, wk, pdfs, variant, TO_DEBUG, part,
                   num_workers, missing_csv, validated>>

\* Lines 445-448: for hospital in failed: writer.writerow([hospital])
AppendFailed(file, list) == file \o list

\* Lines 442-456: the end of attempt_run.  Opening or writing
\* FAILED_HOSPITALS may raise; the exception is printed and dropped.
ArFinish ==
    /\ pc = "ar_collect"
    /\ AllCollected
    /\ pc' = "ar_ended"
    /\ IF failed # <<>> /\ ~TO_DEBUG
       THEN /\ \E writeOk \in BOOLEAN :
                 failedCsv' = IF writeOk THEN AppendFailed(failedCsv, failed)
                                         ELSE failedCsv
            /\ call' = [call EXCEPT !.outcome = StepFailure("worker_task")]
       ELSE /\ failedCsv' = failedCsv
            /\ call' = [call EXCEPT !.outcome =
                           IF failed # <<>> THEN StepFailure("dropdown_sleep")
                                            ELSE ReturnsTrue]
    /\ UNCHANGED <<attempt, run_timestamp, output_dir, baseCsv, hospitals, failed,
                   workers, wk, pdfs, variant, TO_DEBUG, part, num_workers,
                   missing_csv, validated>>

AttemptRunNext ==
    \/ ArRead
    \/ ArReadRaises
    \/ ArDispatch
    \/ ArDispatchRaises
    \/ \E w \in DOMAIN workers : ArRunWorker(w)
    \/ \E w \in DOMAIN workers : ArCollect(w)
    \/ \E w \in DOMAIN workers : ArCollectRaises(w)
    \/ ArFinish

AttemptRunSpec == AttemptRunInit /\ [][AttemptRunNext]_vars

-----------------------------------------------------------------------------
(* Properties.                                                             *)

\* The file a name's report is written to in this run exists.
HasPdf(h) == pdf_name(run_timestamp, h) \in DOMAIN pdfs

NoDuplicates(list) ==
    \A i \in 1..Len(list) : \A j \in 1..Len(list) : list[i] = list[j] => i = j

RECURSIVE Flatten(_)
Flatten(lists) ==
    IF lists = <<>> THEN <<>> ELSE Head(lists) \o Flatten(Tail(lists))

\* The names of the iterations the log marks "failed", in order.
RECURSIVE FailedOf(_, _)
FailedOf(subset, log) ==
    IF log = <<>> THEN <<>>
    ELSE LET n == Len(log)
             before == FailedOf(subset, SubSeq(log, 1, n - 1))
         IN  IF log[n] = "failed" THEN Append(before, subset[n]) ELSE before

WorkerEnded == wk.status \in {"returned", "raised"}

\* C1: in scripts/main.py worker_task a pdf is written for a name only after
\* the selector has re-read the closed dropdown and found its text equal to
\* the name under normalize_text: every file written holds a page whose
\* dropdown text normalizes to the name the file is written for, and a check
\* that failed or could not be made leaves no file.
C1_ExportOnlyAfterVerified ==
    variant = "main" =>
        \A f \in DOMAIN pdfs :
            /\ f = pdf_name(run_timestamp, pdfs[f].for)
            /\ normalize_text(pdfs[f].shown) = normalize_text(pdfs[f].for)

\* A worker of scripts/main.py wrote the pdf of a name the dropdown showed in
\* another spelling, and recorded a failure for another name of its subset.
C1_Witness ==
    /\ variant = "main"
    /\ wk.failed # <<>>
    /\ \E f \in DOMAIN pdfs : pdfs[f].shown # pdfs[f].for

\* C2: when the orchestrator of scripts/main.py has ended, every name of the
\* input list (names taken to be distinct) is exactly one of: exported and not
\* in the final failed list, or in the final failed list and not exported.
C2_EveryNameSettled ==
    (pc \in {"done", "aborted"} /\ NoDuplicates(ReadHospitals(baseCsv))) =>
        \A h \in Range(ReadHospitals(baseCsv)) :
            \/ HasPdf(h) /\ h \notin Range(failed)
            \/ ~HasPdf(h) /\ h \in Range(failed)

\* C3: with at most 3 passes, the orchestrator never dispatches a pass 4.
C3_NeverStartsPassFour == ~(pc = "collect" /\ attempt > 3)

\* C4: the retry loop of scripts/main.py eventually ends, whatever the
\* workers return.
C4_Terminates == <>(pc \in {"done", "aborted"})

\* C5: for a non-empty list and 1 <= W <= len(list) the subsets are the
\* slices of their index ranges, every position of the list lies in exactly
\* one range, and the subsets together hold the list as a multiset.
C5_SetPartition ==
    (part.state = "split" /\ part.list # <<>> /\ part.w \in 1..Len(part.list)) =>
        /\ DOMAIN part.ranges = DOMAIN part.subsets
        /\ \A k \in DOMAIN part.subsets :
              part.subsets[k] = SubSeq(part.list, part.ranges[k][1], part.ranges[k][2])
        /\ \A i \in 1..Len(part.list) :
              Cardinality({k \in DOMAIN part.ranges :
                              part.ranges[k][1] <= i /\ i <= part.ranges[k][2]}) = 1
        /\ BagOf(Flatten(part.subsets)) = BagOf(part.list)

\* A list of five names with a repeated name, split for two workers.
C5_Witness ==
    /\ part.state = "split"
    /\ Len(part.list) = 5
    /\ part.w = 2
    /\ ~NoDuplicates(part.list)
    /\ Len(part.subsets) = 2

\* C6 as stated: for 1 <= W <= n the list is split into exactly W contiguous
\* subsets that keep the order and concatenate to the list.
C6_ExactlyWSubsets ==
    (part.state = "split" /\ part.w \in 1..Len(part.list)) =>
        /\ Len(part.subsets) = part.w
        /\ Flatten(part.subsets) = part.list

\* C6 amended: for 1 <= W <= n the list is split into at least one and at
\* most W subsets, none empty, each a contiguous slice starting where the one
\* before ended; they keep the order and concatenate to the list.
C6_AtMostWSubsets ==
    (part.state = "split" /\ part.w \in 1..Len(part.list)) =>
        /\ Len(part.subsets) \in 1..part.w
        /\ DOMAIN part.ranges = DOMAIN part.subsets
        /\ part.ranges[1][1] = 1
        /\ part.ranges[Len(part.ranges)][2] = Len(part.list)
        /\ \A k \in DOMAIN part.subsets :
              /\ part.subsets[k] # <<>>
              /\ part.subsets[k] = SubSeq(part.list, part.ranges[k][1], part.ranges[k][2])
              /\ k > 1 => part.ranges[k][1] = part.ranges[k - 1][2] + 1
        /\ Flatten(part.subsets) = part.list

\* Fewer subsets than workers: five names for four workers give three subsets.
C6_Witness ==
    /\ part.state = "split"
    /\ Len(part.list) = 5
    /\ part.w = 4
    /\ Len(part.subsets) = 3

\* What the worker's books say once the loop is reached: the failed list is
\* the names of the iterations that failed, in order, and when the worker has
\* ended every name of the subset has had its iteration.
FailuresRecordedAndLoopCompleted ==
    /\ Len(wk.log) = wk.idx - 1
    /\ wk.failed = FailedOf(wk.subset, wk.log)
    /\ WorkerEnded => Len(wk.log) = Len(wk.subset)

\* C7 as stated: in the worker loop of every program a name's failure appends
\* that name to the failed list and the loop goes on to every remaining name.
C7_FailureContinues ==
    wk.setup = "ok" => FailuresRecordedAndLoopCompleted

\* C7 amended: the same, except for src/functions.py in debug mode, where the
\* exception leaves the loop.
C7_FailureContinuesUnlessDebug ==
    (wk.setup = "ok" /\ ~Propagates(variant, TO_DEBUG)) =>
        FailuresRecordedAndLoopCompleted

\* A worker ended after its first name failed and a later one was exported.
C7_Witness ==
    /\ WorkerEnded
    /\ ~Propagates(variant, TO_DEBUG)
    /\ Len(wk.log) >= 2
    /\ wk.log[1] = "failed"
    /\ wk.log[2] = "exported"
    /\ wk.failed = <<wk.subset[1]>>

\* C8: when a call that acquires the session raises (launch, context or page
\* creation, initial load of the dashboard), the worker attempts no name and
\* returns its whole subset.
C8_SetupFailureReturnsSubset ==
    wk.setup \notin {"none", "launched", "ok"} =>
        /\ wk.status = "returned"
        /\ wk.result = wk.subset
        /\ wk.log = <<>>
        /\ pdfs = <<>>

\* C9: a worker that has returned or raised has no browser open and no
\* driver running.
C9_TornDownOnExit ==
    WorkerEnded => (wk.browser # "open" /\ wk.driver # "running")

\* A worker of scripts/main.py went through its loop with a failed name and
\* returned with the browser it had launched closed.
C9_Witness ==
    /\ variant = "main"
    /\ wk.status = "returned"
    /\ wk.setup = "ok"
    /\ wk.failed # <<>>
    /\ wk.browser = "closed"
    /\ wk.driver = "stopped"

\* C10: every pass after the first takes as its input the merged failed list
\* of the pass before (as a multiset), and none of its names has been
\* exported in an earlier pass (names of the first list taken to be distinct).
C10_RetryOnlyFailed ==
    [][(/\ pc = "loop"
        /\ pc' = "collect"
        /\ attempt > 1
        /\ NoDuplicates(ReadHospitals(baseCsv)))
       => (/\ BagOf(hospitals') = BagOf(failed)
           /\ \A h \in Range(hospitals') : ~HasPdf(h))]_vars

\* C11: the run identifier and the output directory are set in pass 1 and no
\* later step changes them; every worker_task submitted, in any pass, is
\* given that output_dir and that run_timestamp.
C11_RunFixedInPassOne ==
    /\ [](\A w \in DOMAIN workers :
             /\ run_timestamp # NoValue
             /\ output_dir = OutputDir(run_timestamp)
             /\ workers[w].run_timestamp = run_timestamp
             /\ workers[w].output_dir = output_dir)
    /\ [][run_timestamp # NoValue =>
             (run_timestamp' = run_timestamp /\ output_dir' = output_dir)]_vars

\* Pass 2 has been dispatched in a run named after the clock's first reading.
C11_Witness ==
    /\ pc = "collect"
    /\ attempt = 2
    /\ workers # <<>>
    /\ run_timestamp = <<"20250723", "153139">>
    /\ \A w \in DOMAIN workers : workers[w].status = "pending"

\* C12: a pass whose merged failed list is empty is followed by the end of the
\* run and nothing else; the loop goes round again only after a pass whose
\* merged failed list is not empty; and once the run has ended no step is
\* taken.
C12_StopOnEmptyFailedList ==
    [][/\ (pc = "collect" /\ AllCollected /\ failed = <<>>) => pc' = "done"
       /\ (pc = "collect" /\ pc' = "loop") => (AllCollected /\ failed # <<>>)
       /\ pc # "done"]_vars

\* The run ended after a second pass with no failure.
C12_Witness ==
    /\ pc = "done"
    /\ attempt = 2
    /\ failed = <<>>
    /\ failedCsv # <<>>

\* C13: within one run, two distinct facility names never get the same pdf
\* file name, for names over an alphabet with the replaced characters and "_".
C13_FileNameInjective ==
    (call.fn = "pdf_name" /\ call.state = "named") =>
        (call.names[1] # call.names[2] => call.files[1] # call.files[2])

\* The files the worker_task of future w may write.
TargetFiles(w) ==
    {pdf_name(workers[w].run_timestamp, h) : h \in Range(workers[w].subset)}

\* C14: in a pass, two different workers never have a file name in common
\* among the files they may write into the output directory.
C14_WorkersTargetDisjointFiles ==
    pc = "collect" =>
        \A w1 \in DOMAIN workers : \A w2 \in DOMAIN workers :
            w1 # w2 => TargetFiles(w1) \cap TargetFiles(w2) = {}

\* The dropdown opens, takes the search and renders "Saint Mary Hospital" and
\* "Saint Mary's Hospital", in this order, the second of them clickable.
NearDuplicateScenario ==
    /\ call.fn = "select"
    /\ call.state = "returned"
    /\ call.hospital = SaintMarys
    /\ Opened(call.ui) /\ call.ui.search /\ call.ui.wait
    /\ Len(call.ui.items) = 2
    /\ call.ui.items[1].read /\ call.ui.items[1].text = SaintMary
    /\ call.ui.items[2].read /\ call.ui.items[2].text = SaintMarys
    /\ call.ui.items[2].click[1]

ClickEvents(r) == {i \in 1..Len(r.events) : r.events[i].e = "click_item"}

\* C15: with the labels "Saint Mary Hospital", "Saint Mary's Hospital" and the
\* target "Saint Mary's Hospital" the selector clicks the second item (index 1
\* counted from 0) and no other; and when the closed dropdown then reads
\* "Saint Mary Hospital" the call fails in the post-selection check.
C15_NearDuplicateLabels ==
    NearDuplicateScenario =>
        /\ call.result.clicked = 2
        /\ \A i \in ClickEvents(call.result) : call.result.events[i] = Ev("click_item", 2)
        /\ Cardinality(ClickEvents(call.result)) = 1
        /\ call.ui.selected = [ok |-> TRUE, v |-> SaintMary]
              => call.result.outcome = "post_selection"

\* The scenario, with the closed dropdown reading the other label.
C15_Witness ==
    /\ NearDuplicateScenario
    /\ call.ui.selected = [ok |-> TRUE, v |-> SaintMary]
    /\ call.result.clicked = 2
    /\ call.result.outcome = "post_selection"

\* The list of the scenario, run with two workers.
ScenarioRun == baseCsv = ScenarioList /\ num_workers = 2

\* Pass 1 of the scenario is over: the first worker exported both of its
\* names and returned no failure, the second failed for its one name.
PassOneAsClaimed ==
    /\ ScenarioRun
    /\ attempt = 1
    /\ pc = "collect"
    /\ AllCollected
    /\ workers[1].result = <<>>
    /\ workers[2].result = <<<<"c">>>>
    /\ HasPdf(<<"a">>) /\ HasPdf(<<"b">>) /\ ~HasPdf(<<"c">>)

\* C16: for the list of three names and W = 2 the subsets are the first two
\* names and the third; when the first worker succeeds for both names and the
\* second fails for the third, the merged failed list holds the third name
\* alone, and pass 2 is started with exactly that name as its input.
C16_EndToEndScenario ==
    /\ []((ScenarioRun /\ attempt = 1 /\ pc = "collect") =>
             /\ Len(workers) = 2
             /\ workers[1].subset = <<<<"a">>, <<"b">>>>
             /\ workers[2].subset = <<<<"c">>>>)
    /\ [](PassOneAsClaimed => failed = <<<<"c">>>>)
    /\ [][PassOneAsClaimed =>
             (pc' = "loop" /\ attempt' = 2 /\ failedCsv' = <<<<"c">>>>)]_vars
    /\ [][(ScenarioRun /\ pc = "loop" /\ attempt = 2 /\ failedCsv = <<<<"c">>>>) =>
             (pc' = "collect" /\ hospitals' = <<<<"c">>>> /\ Len(workers') = 1
              /\ workers'[1].subset = <<<<"c">>>>)]_vars

\* Pass 2 of the scenario has been dispatched for the third name, the first
\* two exported.
C16_Witness ==
    /\ ScenarioRun
    /\ attempt = 2
    /\ pc = "collect"
    /\ hospitals = <<<<"c">>>>
    /\ HasPdf(<<"a">>) /\ HasPdf(<<"b">>) /\ ~HasPdf(<<"c">>)

\* C17: normalize_text applied to its own result returns it unchanged, for
\* every text (the empty one included); and the selector's normalized
\* comparisons normalize both the label read and the target: they give the
\* same answer on the two texts as on their normalized forms, namely whether
\* the two normalized forms are equal.
C17_NormalizeIdempotent ==
    call.fn = "normalize_text" =>
        /\ call.state \in {"twice", "compared"} => call.twice = call.once
        /\ call.state = "compared" =>
              /\ call.matched = call.matchedNormalized
              /\ call.matched = (call.once = normalize_text(call.hospital))
              /\ call.verified = call.verifiedNormalized
              /\ (call.verified = "Verified") = call.matched

\* A text the normalisation changes in all its three steps, matched with a
\* target written otherwise.
C17_Witness ==
    /\ call.fn = "normalize_text"
    /\ call.state = "compared"
    /\ call.text = <<"nbsp", "fwa", "dia">>
    /\ call.once = <<"a", " ", "cmb">>
    /\ call.hospital = <<"a", "dia">>
    /\ call.matched

\* C18: runs of scripts/validate.py in a row, on one list and a directory
\* nothing else changes, all give the same list of missing names.
C18_ValidateSameResultTwice ==
    \A i \in 1..Len(validated) : validated[i] = validated[1]

\* Two runs were made, names were missing, and the first run's report was in
\* the directory when the second run listed it.
C18_Witness ==
    /\ Len(validated) = 2
    /\ Len(validated[1]) = 2
    /\ missing_csv = [exists |-> TRUE, rows |-> validated[1]]
    /\ pdfs # <<>>

\* C19 as stated: a run of scripts/validate.py leaves the files of the output
\* directory and their contents unchanged, whether or not names are missing.
C19_DirectoryUnchanged ==
    [][pdfs' = pdfs /\ missing_csv' = missing_csv]_vars

\* C19 amended: a run leaves every file of the output directory unchanged
\* except missing_pdfs.csv, which it creates or overwrites with the missing
\* names when at least one name is missing and leaves as it is when none is.
C19_OnlyMissingCsvWritten ==
    [][validated' # validated =>
          LET missing == validated'[Len(validated')]
          IN  /\ pdfs' = pdfs
              /\ missing = <<>> => missing_csv' = missing_csv
              /\ missing # <<>> => missing_csv' = [exists |-> TRUE, rows |-> missing]]_vars

\* A run found a name missing in a directory that held a pdf and no report,
\* and left its report there.
C19_Witness ==
    /\ Len(validated) = 1
    /\ validated[1] = <<<<"_">>>>
    /\ missing_csv = [exists |-> TRUE, rows |-> <<<<"_">>>>]
    /\ pdfs # <<>>

\* The expected file of a name is not among the pdf files of the directory.
ExpectedAbsent(h) ==
    ExpectedName(h, Runstamp(output_dir))
        \notin actual_pdf_files(ListDir(pdfs, NoFile))

\* C20: after a run of scripts/validate.py the missing list holds exactly the
\* names of the list read whose expected file is absent from the directory.
C20_MissingExactlyTheAbsent ==
    validated # <<>> =>
        \A i \in 1..Len(hospitals) :
            ExpectedAbsent(hospitals[i])
                <=> hospitals[i] \in Range(validated[Len(validated)])

\* The report of the row was written by the export run.
RowExported(row) ==
    \E f \in DOMAIN pdfs : pdfs[f].for = ExportedName(variant, row)

\* C21: a row whose report the export run wrote is not in the missing list
\* that scripts/validate.py computes for the run's directory: the file name
\* expected for the row is the file name the export wrote.
C21_ExportedNeverMissing ==
    validated # <<>> =>
        \A i \in 1..Len(baseCsv) :
            RowExported(baseCsv[i])
                => /\ baseCsv[i] \notin Range(validated[1])
                   /\ ExpectedName(baseCsv[i], Runstamp(output_dir))
                        = FileNameOf(variant, run_timestamp,
                                     ExportedName(variant, baseCsv[i]))

\* Some worker process of the pass died without returning a result.
WorkerCrashed == \E w \in DOMAIN workers : workers[w].status = "crashed"

\* C22: when a worker process died without returning, the orchestrator does
\* not abort, and at the end of the pass the whole subset of that worker is in
\* the failed list together with what the other workers returned.
C22_CrashRecordedAsFailed ==
    /\ pc # "aborted"
    /\ (WorkerCrashed /\ pc \in {"loop", "done"})
          => \A w \in DOMAIN workers :
                workers[w].status = "crashed"
                    => \A i \in 1..Len(workers[w].subset) :
                          workers[w].subset[i] \in Range(failedCsv)

\* The step is the attempt for position i of the subset: it ends as an export
\* of the name at i, or with that name appended to the failed list, and the
\* loop moves on to i + 1.
AttemptAt(i) ==
    /\ i <= Len(wk.subset)
    /\ wk.idx = i
    /\ wk'.idx = i + 1
    /\ \/ /\ wk'.log[i] = "exported"
          /\ wk'.failed = wk.failed
          /\ LET name == pdf_name(run_timestamp, wk.subset[i])
             IN  /\ DOMAIN pdfs' = DOMAIN pdfs \cup {name}
                 /\ pdfs'[name].for = wk.subset[i]
                 /\ \A f \in DOMAIN pdfs \ {name} : pdfs'[f] = pdfs[f]
       \/ /\ wk'.log[i] = "failed"
          /\ wk'.failed = Append(wk.failed, wk.subset[i])
          /\ pdfs' = pdfs

C24_OneSessionOneLoad ==
    /\ [](/\ wk.launches <= 1
          /\ wk.loads <= 1
          /\ wk.setup = "ok" => (wk.launches = 1 /\ wk.loads = 1)
          /\ wk.log # <<>> => (wk.launches = 1 /\ wk.loads = 1))
    /\ [][wk'.log # wk.log
            => (wk'.launches = wk.launches /\ wk'.loads = wk.loads)]_vars

\* A worker of scripts/main.py returned after three attempts, all failed.
C24_Witness ==
    /\ variant = "main"
    /\ wk.status = "returned"
    /\ wk.log = <<"failed", "failed", "failed">>
    /\ wk.launches = 1
    /\ wk.loads = 1

\* A worker of src/functions_v2.py in its loop after a failed attempt.
C24_WitnessSelenium ==
    /\ variant = "v2"
    /\ wk.status = "running"
    /\ wk.log = <<"failed">>
    /\ wk.launches = 1
    /\ wk.loads = 1

\* select_first_search_result was called and has returned or raised.
Selected == call.fn = "select" /\ call.state \in {"returned", "handled"}

\* The positions of the events named e in what the call did.
EventsNamed(e) ==
    {i \in 1..Len(call.result.events) : call.result.events[i].e = e}

StepRank(e) ==
    CASE e = "click_dropdown" -> 1
      [] e = "search"         -> 2
      [] e = "wait_items"     -> 3
      [] e \in {"scan", "click_raises", "click_item"} -> 4
      [] e = "click_body"     -> 5
      [] e = "verify"         -> 6

SelectorOutcomes ==
    {"Verified", "dropdown_open", "search_input", "dropdown_wait",
     "no_exact_match", "post_selection"}

\* C26: a call of the selector ends in one outcome, Verified or one of the
\* failures; what it did is in the order open, search, wait, select, dismiss,
\* verify, each of search, wait, dismiss and verify at most once; the search is
\* made only on an opened dropdown, an item is clicked only after the search
\* was submitted and items were rendered, the final check is made only after a
\* click on an item went through, and Verified is reached only through all six
\* steps.
C26_OneOutcomeStepsInOrder ==
    Selected =>
        LET ev == call.result.events
            n  == Len(ev)
        IN  /\ call.result.outcome \in SelectorOutcomes
            /\ \A i \in 1..n : \A j \in 1..n :
                  i < j => StepRank(ev[i].e) <= StepRank(ev[j].e)
            /\ \A e \in {"search", "wait_items", "click_body", "verify", "click_item"} :
                  Cardinality(EventsNamed(e)) <= 1
            /\ EventsNamed("search") # {}
                  => (call.ui.open[1] \/ call.ui.open[2])
            /\ \A j \in EventsNamed("click_item") \cup EventsNamed("click_raises") :
                  /\ \E i \in EventsNamed("search") : i < j
                  /\ \E i \in EventsNamed("wait_items") : i < j
                  /\ call.ui.search /\ call.ui.wait /\ call.ui.items # <<>>
            /\ \A j \in EventsNamed("verify") :
                  /\ \E i \in EventsNamed("click_item") : i < j
                  /\ \E i \in EventsNamed("click_body") : i < j
            /\ call.result.outcome \in {"Verified", "post_selection"}
                  <=> EventsNamed("verify") # {}
            /\ call.result.outcome = "Verified" => ev[n].e = "verify"

\* A verified selection of the second item, after a click on the first one
\* raised and the dropdown opened at the second attempt.
C26_Witness ==
    /\ Selected
    /\ call.result.outcome = "Verified"
    /\ call.result.opens = 2
    /\ call.result.clicked = 2
    /\ EventsNamed("click_raises") # {}

\* The call got as far as the scan of the rendered items.
ScanReached == Selected /\ EventsNamed("scan") # {}

\* The items whose label was read and equals the target under normalize_text,
\* and those whose label as read is the target.
NormalizedMatches ==
    {i \in 1..Len(call.ui.items) :
        /\ call.ui.items[i].read
        /\ normalize_text(Strip(call.ui.items[i].text)) = normalize_text(call.hospital)}

RawMatches ==
    {i \in 1..Len(call.ui.items) :
        /\ call.ui.items[i].read
        /\ Strip(call.ui.items[i].text) = call.hospital}

\* The items of S whose click, in the given pass, does not raise.
Clickable(S, pass) == {i \in S : call.ui.items[i].click[pass]}

First(S) == CHOOSE i \in S : \A j \in S : i <= j

\* C27 as stated: the item clicked is the first item whose label equals the
\* target under normalize_text; the raw pass runs only if the normalized pass
\* selected nothing; with no item selected the call fails with the
\* no-exact-match failure and without a click that went through.
C27_FirstNormalizedMatch ==
    ScanReached =>
        /\ call.result.clicked # 0
              => /\ NormalizedMatches # {}
                 /\ call.result.clicked = First(NormalizedMatches)
        /\ Ev("scan", 2) \in Range(call.result.events)
              <=> Clickable(NormalizedMatches, 1) = {}
        /\ call.result.clicked = 0
              <=> call.result.outcome = "no_exact_match"
        /\ call.result.clicked = 0 => EventsNamed("click_item") = {}

\* C27, amended: an item whose label cannot be read or whose click raises is
\* skipped.  The item clicked is the first item whose label equals the target
\* under normalize_text and whose click does not raise; only if there is none
\* the raw pass runs, and it clicks the first item whose label as read is the
\* target and whose click does not raise in that pass; if there is none
\* either the call fails with the no-exact-match failure and no click went
\* through.  Every matching item before the clicked one was clicked and raised.
C27_FirstClickableMatch ==
    ScanReached =>
        LET c1 == Clickable(NormalizedMatches, 1)
            c2 == Clickable(RawMatches, 2)
            r  == call.result
        IN  /\ c1 # {} => /\ r.clicked = First(c1)
                          /\ r.pass = 1
                          /\ Ev("scan", 2) \notin Range(r.events)
            /\ c1 = {} => Ev("scan", 2) \in Range(r.events)
            /\ (c1 = {} /\ c2 # {}) => /\ r.clicked = First(c2)
                                      /\ r.pass = 2
            /\ (c1 = {} /\ c2 = {}) => /\ r.outcome = "no_exact_match"
                                      /\ r.clicked = 0
                                      /\ EventsNamed("click_item") = {}
            /\ r.clicked # 0
                  => /\ r.outcome \in {"Verified", "post_selection"}
                     /\ r.clicked \in NormalizedMatches
                     /\ r.events[First(EventsNamed("click_item"))]
                            = Ev("click_item", r.clicked)
                     /\ Cardinality(EventsNamed("click_item")) = 1
                     /\ \A i \in NormalizedMatches :
                           i < r.clicked => Ev("click_raises", i) \in Range(r.events)

\* Two items with the label of the target; the click on the first raised and
\* the second was clicked in the normalized pass.
C27_Witness ==
    /\ ScanReached
    /\ NormalizedMatches = {1, 2}
    /\ call.result.clicked = 2
    /\ call.result.pass = 1
    /\ Ev("click_raises", 1) \in Range(call.result.events)

\* The raw pass clicked the item that the normalized pass had clicked in vain.
C27_WitnessRawPass ==
    /\ ScanReached
    /\ call.result.pass = 2
    /\ call.result.clicked = 1
    /\ call.result.outcome = "Verified"

\* C28: when the dropdown was opened (at the first or at the second attempt)
\* and the search input then fails, the call fails with the search-input
\* failure and not with the dropdown-open failure; when the dropdown could not
\* be opened it fails with the dropdown-open failure, the search input is not
\* touched, and the failure is not the search-input failure.
C28_SearchFailureDistinct ==
    Selected =>
        LET opened == call.ui.open[1] \/ call.ui.open[2]
        IN  /\ (opened /\ ~call.ui.search)
                  <=> call.result.outcome = "search_input"
            /\ ~opened <=> call.result.outcome = "dropdown_open"
            /\ ~opened => EventsNamed("search") = {}
            /\ call.result.outcome = "search_input"
                  => call.result.events[Len(call.result.events)] = Ev("search", 0)

\* The dropdown opened at the second attempt and the search input failed.
C28_Witness ==
    /\ Selected
    /\ call.ui.open = <<FALSE, TRUE>>
    /\ ~call.ui.search
    /\ call.result.outcome = "search_input"

\* No item had rendered when the wait ended: the wait timed out, or the count
\* of items was zero.
NoItemRendered == ~call.ui.wait \/ Len(call.ui.items) = 0

\* C29: when the dropdown opened and the search was submitted but no item had
\* rendered when the wait ended, the call fails with the no-results failure
\* ("Dropdown wait error") and the scan is not started: no label is compared
\* and no item is clicked; and that failure has no other cause.
C29_NoResultsNoScan ==
    Selected =>
        /\ ((call.ui.open[1] \/ call.ui.open[2]) /\ call.ui.search /\ NoItemRendered)
              => /\ call.result.outcome = "dropdown_wait"
                 /\ EventsNamed("scan") = {}
                 /\ EventsNamed("click_item") = {}
                 /\ EventsNamed("click_raises") = {}
                 /\ call.result.clicked = 0
                 /\ call.result.events[Len(call.result.events)] = Ev("wait_items", 0)
        /\ call.result.outcome = "dropdown_wait"
              => ((call.ui.open[1] \/ call.ui.open[2]) /\ call.ui.search /\ NoItemRendered)

\* The wait did not time out, but the count of items was zero.
C29_Witness ==
    /\ Selected
    /\ call.ui.wait
    /\ call.ui.items = <<>>
    /\ call.result.outcome = "dropdown_wait"

\* The wait timed out although the page would have had two items to show.
C29_WitnessTimeout ==
    /\ Selected
    /\ ~call.ui.wait
    /\ Len(call.ui.items) = 2
    /\ call.result.outcome = "dropdown_wait"

\* The clicks made on item i, whether they raised or not.
ClicksOn(i) ==
    {j \in 1..Len(call.result.events) :
        /\ call.result.events[j].e \in {"click_item", "click_raises"}
        /\ call.result.events[j].i = i}

\* The scan loops that were run.
PassesRun == {p \in {1, 2} : Ev("scan", p) \in Range(call.result.events)}

\* A step that the call made has failed: the dropdown did not open at either
\* attempt, the search input failed, no item rendered, a click on a matching
\* item raised, the click that dismisses the dropdown raised, or the final
\* check failed.
SomeStepFailed ==
    \/ ~call.ui.open[1] /\ ~call.ui.open[2]
    \/ EventsNamed("search") # {} /\ ~call.ui.search
    \/ EventsNamed("wait_items") # {} /\ NoItemRendered
    \/ EventsNamed("click_raises") # {}
    \/ EventsNamed("click_body") # {} /\ ~call.ui.close
    \/ EventsNamed("verify") # {} /\ VerifyOutcome(call.ui, call.hospital) # "Verified"

\* C30 as stated: once a step has failed the call ends in failure, and apart
\* from the click on the dropdown no step is made a second time, the click on
\* an item included.
C30_FailedStepEndsAttempt ==
    Selected =>
        /\ SomeStepFailed => call.result.outcome # "Verified"
        /\ \A i \in 1..Len(call.ui.items) : Cardinality(ClicksOn(i)) <= 1
        /\ \A e \in {"search", "wait_items", "click_body", "verify"} :
              Cardinality(EventsNamed(e)) <= 1

\* C30, amended: the dropdown is clicked at most twice; search, wait, dismiss
\* and final check are made at most once and each scan loop is run at most
\* once; an item is clicked at most once in each scan loop that was run, so
\* a second time only in the raw pass after the normalized pass clicked
\* nothing successfully.  A failure to open, to search, to see items, to
\* select an item or to pass the final check ends the call at that step.  A
\* click on an item that raised and a dismissing click that raised do not
\* end the call.  After a failed call the worker has appended the name to
\* its failed list, written no file and gone on to the next position: the
\* selector is not called again for the name in this pass.
C30_NoRetryButRawPass ==
    Selected =>
        LET r    == call.result
            last == r.events[Len(r.events)]
        IN  /\ Cardinality(EventsNamed("click_dropdown")) <= 2
            /\ \A e \in {"search", "wait_items", "click_body", "verify"} :
                  Cardinality(EventsNamed(e)) <= 1
            /\ Cardinality(EventsNamed("scan")) = Cardinality(PassesRun)
            /\ 2 \in PassesRun
                  => (1 \in PassesRun /\ Clickable(NormalizedMatches, 1) = {})
            /\ \A i \in 1..Len(call.ui.items) :
                  Cardinality(ClicksOn(i)) <= Cardinality(PassesRun)
            /\ (~call.ui.open[1] /\ ~call.ui.open[2])
                  => (r.outcome = "dropdown_open" /\ last = Ev("click_dropdown", 2))
            /\ (EventsNamed("search") # {} /\ ~call.ui.search)
                  => (r.outcome = "search_input" /\ last = Ev("search", 0))
            /\ (EventsNamed("wait_items") # {} /\ NoItemRendered)
                  => (r.outcome = "dropdown_wait" /\ last = Ev("wait_items", 0))
            /\ (PassesRun # {} /\ r.clicked = 0)
                  => /\ r.outcome = "no_exact_match"
                     /\ PassesRun = {1, 2}
                     /\ EventsNamed("click_body") = {}
                     /\ EventsNamed("verify") = {}
            /\ (EventsNamed("verify") # {}
                    /\ VerifyOutcome(call.ui, call.hospital) # "Verified")
                  => (r.outcome = "post_selection" /\ last = Ev("verify", 0))
            /\ r.outcome = "Verified"
                  => /\ call.ui.open[1] \/ call.ui.open[2]
                     /\ call.ui.search
                     /\ ~NoItemRendered
                     /\ r.clicked # 0
                     /\ VerifyOutcome(call.ui, call.hospital) = "Verified"
            /\ call.state = "handled"
                  => /\ wk.idx = 2
                     /\ Len(wk.log) = 1
                     /\ r.outcome # "Verified"
                           => /\ wk.failed = <<call.hospital>>
                              /\ wk.log = <<"failed">>
                              /\ pdfs = <<>>

\* A verified selection although two steps had failed: the click on the
\* item raised in the normalized pass and went through in the raw pass, and
\* the click that dismisses the dropdown raised.
C30_Witness ==
    /\ Selected
    /\ call.state = "handled"
    /\ call.result.outcome = "Verified"
    /\ call.result.pass = 2
    /\ Cardinality(ClicksOn(call.result.clicked)) = 2
    /\ ~call.ui.close
    /\ wk.log = <<"exported">>

\* A call that failed in the final check, handled by the worker.
C30_WitnessFailure ==
    /\ call.fn = "select"
    /\ call.state = "handled"
    /\ call.result.outcome = "post_selection"
    /\ wk.failed = <<call.hospital>>

\* The lists returned by the workers of the pass (of the collected ones only,
\* when onlyCollected), one after the other in task order.
RECURSIVE ResultsUpTo(_, _)
ResultsUpTo(n, onlyCollected) ==
    IF n = 0 THEN <<>>
    ELSE ResultsUpTo(n - 1, onlyCollected)
         \o (IF workers[n].status = "returned"
                /\ (onlyCollected => workers[n].collected)
             THEN workers[n].result ELSE <<>>)

\* C31: during a pass the merged failed list is, as a multiset, the union of
\* the lists returned by the workers collected so far, whatever the order in
\* which the workers ran and were collected; a worker's run does not touch
\* the list, which changes only when a pass starts (reset to empty) or a
\* returned list is collected; and the pass is left, with the list taken as
\* its result, only when every worker has returned and been collected, the
\* list then being the multiset union of all the returned lists.
C31_MergedIsMultisetUnion ==
    /\ [](pc = "collect"
            => BagOf(failed) = BagOf(ResultsUpTo(Len(workers), TRUE)))
    /\ [][failed' # failed
            => \/ pc = "loop" /\ pc' = "collect" /\ failed' = <<>>
               \/ \E w \in DOMAIN workers :
                     /\ workers[w].status = "returned"
                     /\ ~workers[w].collected
                     /\ workers'[w].collected
                     /\ failed' = failed \o workers[w].result]_vars
    /\ [][(pc = "collect" /\ pc' \in {"loop", "done"})
            => /\ \A w \in DOMAIN workers :
                     workers[w].status = "returned" /\ workers[w].collected
               /\ BagOf(failed) = BagOf(ResultsUpTo(Len(workers), FALSE))
               /\ failed' = failed]_vars

\* Two workers returned different non-empty lists and the second was
\* collected before the first.
C31_Witness ==
    /\ pc = "collect"
    /\ Len(workers) = 2
    /\ AllCollected
    /\ workers[1].result # <<>>
    /\ workers[2].result # <<>>
    /\ workers[1].result # workers[2].result
    /\ failed = workers[2].result \o workers[1].result

\* Some worker of attempt_run returned a list with a failed name in it.
SomeNameFailed ==
    \E w \in DOMAIN workers :
        workers[w].status = "returned" /\ workers[w].result # <<>>

\* Some worker did not run to a normal return.
SomeWorkerRaised ==
    \E w \in DOMAIN workers : workers[w].status \in {"raised", "crashed"}

\* C32: when attempt_run has ended, it returned True only if no name failed;
\* outside debug mode, if a name failed, it raised StepFailure and
\* FAILED_HOSPITALS holds what it held before followed by every failed name;
\* in debug mode a failure ends it with an exception and FAILED_HOSPITALS is
\* as it was.
C32_AttemptRunOutcome ==
    (pc = "ar_ended" /\ call.fn = "attempt_run") =>
        /\ call.outcome = ReturnsTrue
              => (~SomeNameFailed /\ ~SomeWorkerRaised)
        /\ (~TO_DEBUG /\ SomeNameFailed)
              => /\ call.outcome.kind = "StepFailure"
                 /\ BagOf(failedCsv)
                      = BagOf(call.before \o ResultsUpTo(Len(workers), FALSE))
        /\ (TO_DEBUG /\ (SomeNameFailed \/ SomeWorkerRaised))
              => /\ call.outcome.kind \in {"StepFailure", "exception"}
                 /\ failedCsv = call.before

\* A pdf was written for the name during this run of the worker.
ExportedInRun(h) ==
    \E i \in 1..Len(wk.log) : wk.subset[i] = h /\ wk.log[i] = "exported"

\* C33: when a worker of scripts/main.py has returned (its subset holding no
\* name twice), a name of the subset is in the returned list exactly when no
\* pdf was written for it during the run.
C33_ReturnedIffNotExported ==
    (variant = "main" /\ wk.status = "returned" /\ NoDuplicates(wk.subset)) =>
        \A h \in Range(wk.subset) :
            h \in Range(wk.result) <=> ~ExportedInRun(h)

\* C34: at the end of every pass of scripts/main.py (the orchestrator is back
\* at the top of its loop, or has left it) the failed-names file lists
\* exactly the names of the merged failed list of the pass just finished; in
\* particular it lists no name when the run ended after a pass without
\* failure.
C34_FailedFileIsLastPass ==
    /\ (pc = "done" /\ failed = <<>>) => failedCsv = <<>>
    /\ pc \in {"loop", "done"} => failedCsv = failed

\* C35: when the worker of scripts/main.py has handled a failed call of the
\* selector and is about to go on to the next name, the dropdown is closed,
\* as it was before the call.
C35_ClosedAfterFailure ==
    (call.fn = "select" /\ call.state = "handled"
        /\ call.result.outcome # "Verified")
        => call.dropdown = "closed"

\* C36: whenever attempt_run of src/functions.py evaluates the partition
\* expression (several workers) the chunk size is not zero, and attempt_run
\* does not end with the ValueError of a zero slicing step.
C36_ChunkSizeNeverZero ==
    /\ (pc = "ar_dispatch" /\ num_workers # 1)
          => split_size(hospitals, num_workers) > 0
    /\ (pc = "ar_ended" /\ call.fn = "attempt_run")
          => call.outcome # OtherException("ValueError")

====
